---- MODULE Spec2Model ----
(***************************************************************************)
(* ht: a headless terminal host.  The model covers the PTY driver          *)
(* (src/src/pty.rs), the event loop (src/src/main.rs), the command          *)
(* serialisers (src/src/command.rs) and the session / fan-out layer the     *)
(* loop calls into.  The child process, the master fd and the API task are  *)
(* the environment.                                                         *)
(***************************************************************************)
EXTENDS Integers, Sequences, FiniteSets, TLC

\* ------------------------------------------------------------------ bounds
\* chunks the child writes to its terminal in one run
MaxOut == 1
\* commands the API task sends in one run
MaxCmds == 2
\* clients that arrive in one run
MaxClients == 1
\* capacity used for the byte and command channels (mpsc::channel(1024) in main)
ChanCap == 1

\* ------------------------------------------------------- program constants
\* mpsc::channel(1) for the clients channel
ClientsCap == 1
\* libc::SIGHUP
SIGHUP == 1
\* the pid forkpty returned
Pid == 7
\* u16::MAX
U16Max == 65535

\* Option<T>: None is the empty tuple, Some(x) the one-element tuple
NoneV == <<>>
Some(x) == <<x>>

EventTypes == {"init", "output", "resize", "snapshot", "exit"}

\* ------------------------------------------------------------ environment
\* statuses the child may exit with, signals it may be killed by
ExitCodes == {0, 143}
KillSignals == {15}
\* output chunks: two switch cursor-key application mode on and off, one is
\* not valid UTF-8
Chunks == {"appOn", "appOff", "bad"}
\* --size arguments, as strings of characters
SizeArgs ==
    { <<"3", "x", "2">>, <<"0", "x", "0">>, <<"0", "x", "5">>, <<"+", "7", "x", "1">>,
      <<"6", "5", "5", "3", "5", "x", "6", "5", "5", "3", "5">>,
      <<"6", "5", "5", "3", "6", "x", "1">>, <<"3", "x">>, <<"x">>, <<"3", "2">>,
      <<"3", "x", "2", "x", "1">>, <<"-", "1", "x", "2">> }

\* ------------------------------------------------------ command.rs: types
Standard(b) == [kind |-> "Standard", seq1 |-> b, seq2 |-> <<>>]
Cursor(n, a) == [kind |-> "Cursor", seq1 |-> n, seq2 |-> a]

MouseEventTypes == {"Press", "Release", "Drag"}
MouseButtons == {"Left", "Middle", "Right", "WheelUp", "WheelDown"}
MouseModifiers == [shift : BOOLEAN, alt : BOOLEAN, control : BOOLEAN]
MouseEvent(t, b, r, c, m) ==
    [event_type |-> t, button |-> b, row |-> r, col |-> c, modifiers |-> m]

NoEvent == MouseEvent("Press", "Left", 0, 0, [shift |-> FALSE, alt |-> FALSE, control |-> FALSE])

\* Command: one record shape for the five variants
CmdInput(seqs) == [type |-> "Input", seqs |-> seqs, ev |-> NoEvent, cols |-> 0, rows |-> 0]
CmdMouse(e) == [type |-> "Mouse", seqs |-> <<>>, ev |-> e, cols |-> 0, rows |-> 0]
CmdMouseClick(e) == [type |-> "MouseClick", seqs |-> <<>>, ev |-> e, cols |-> 0, rows |-> 0]
CmdSnapshot == [type |-> "Snapshot", seqs |-> <<>>, ev |-> NoEvent, cols |-> 0, rows |-> 0]
CmdResize(c, r) == [type |-> "Resize", seqs |-> <<>>, ev |-> NoEvent, cols |-> c, rows |-> r]

\* --------------------------------------------- command.rs: serialisation
\* seq_as_bytes: match (seq, app_mode)
seq_as_bytes(seq, app_mode) ==
    CASE seq.kind = "Standard" -> seq.seq1
      [] seq.kind = "Cursor" /\ ~app_mode -> seq.seq1
      [] seq.kind = "Cursor" /\ app_mode -> seq.seq2

RECURSIVE seqs_to_bytes(_, _)
seqs_to_bytes(seqs, app_mode) ==
    IF seqs = <<>> THEN <<>>
    ELSE seq_as_bytes(Head(seqs), app_mode) \o seqs_to_bytes(Tail(seqs), app_mode)

DigitChars == <<"0", "1", "2", "3", "4", "5", "6", "7", "8", "9">>

\* format!("{}", n) for a non-negative integer
RECURSIVE Dec(_)
Dec(n) == IF n < 10 THEN <<DigitChars[n + 1]>>
          ELSE Dec(n \div 10) \o <<DigitChars[(n % 10) + 1]>>

\* a serialiser that writes the row before the column
mouse_to_bytes_row_first(event) ==
    LET base == CASE event.button = "Left" -> 0
                  [] event.button = "Middle" -> 1
                  [] event.button = "Right" -> 2
                  [] event.button = "WheelUp" -> 64
                  [] event.button = "WheelDown" -> 65
        btn == base
               + (IF event.modifiers.shift THEN 4 ELSE 0)
               + (IF event.modifiers.alt THEN 8 ELSE 0)
               + (IF event.modifiers.control THEN 16 ELSE 0)
               + (IF event.event_type = "Drag" THEN 32 ELSE 0)
        suffix == IF event.event_type \in {"Press", "Drag"} THEN "M" ELSE "m"
    IN  <<"ESC", "[", "<">> \o Dec(btn) \o <<";">> \o Dec(event.row)
        \o <<";">> \o Dec(event.col) \o <<suffix>>

mouse_to_bytes(event) ==
    LET base == CASE event.button = "Left" -> 0
                  [] event.button = "Middle" -> 1
                  [] event.button = "Right" -> 2
                  [] event.button = "WheelUp" -> 64
                  [] event.button = "WheelDown" -> 65
        btn == base
               + (IF event.modifiers.shift THEN 4 ELSE 0)
               + (IF event.modifiers.alt THEN 8 ELSE 0)
               + (IF event.modifiers.control THEN 16 ELSE 0)
               + (IF event.event_type = "Drag" THEN 32 ELSE 0)
        suffix == IF event.event_type \in {"Press", "Drag"} THEN "M" ELSE "m"
    IN  <<"ESC", "[", "<">> \o Dec(btn) \o <<";">> \o Dec(event.col)
        \o <<";">> \o Dec(event.row) \o <<suffix>>

\* --------------------------------------------------- cli.rs: Size::from_str
IsDigit(ch) == \E i \in DOMAIN DigitChars : DigitChars[i] = ch

DigitValue(ch) == (CHOOSE i \in DOMAIN DigitChars : DigitChars[i] = ch) - 1

\* the digits of str::parse::<u16>: None on a character that is not a digit and
\* on a value above u16::MAX
RECURSIVE ParseDigits(_, _)
ParseDigits(cs, acc) ==
    IF cs = <<>> THEN Some(acc)
    ELSE IF ~IsDigit(Head(cs)) THEN NoneV
    ELSE IF acc * 10 + DigitValue(Head(cs)) > U16Max THEN NoneV
    ELSE ParseDigits(Tail(cs), acc * 10 + DigitValue(Head(cs)))

\* str::parse::<u16>: an optional '+', then at least one digit
parse_u16(cs) ==
    LET ds == IF cs # <<>> /\ Head(cs) = "+" THEN Tail(cs) ELSE cs
    IN  IF ds = <<>> THEN NoneV ELSE ParseDigits(ds, 0)

\* str::split_once('x'): the parts before and after the first 'x'
split_once(cs) ==
    LET at == {i \in DOMAIN cs : cs[i] = "x"}
    IN  IF at = {} THEN NoneV
        ELSE LET i == CHOOSE j \in at : \A k \in at : j <= k
             IN  Some(<<SubSeq(cs, 1, i - 1), SubSeq(cs, i + 1, Len(cs))>>)

\* Size::from_str: Ok(Size(winsize)) or an error
Size_from_str(cs) ==
    LET parts == split_once(cs)
    IN  IF parts = NoneV THEN [ok |-> FALSE, cols |-> 0, rows |-> 0]
        ELSE LET c == parse_u16(parts[1][1])
                 r == parse_u16(parts[1][2])
             IN  IF c = NoneV \/ r = NoneV THEN [ok |-> FALSE, cols |-> 0, rows |-> 0]
                 ELSE [ok |-> TRUE, cols |-> c[1], rows |-> r[1]]

\* the sizes (cols, rows) main starts with, for a set of --size arguments
ParsedSizes(args) ==
    { <<Size_from_str(a).cols, Size_from_str(a).rows>> : a \in {b \in args : Size_from_str(b).ok} }

\* --size 3x2
InitSizes == ParsedSizes({<<"3", "x", "2">>})

\* ------------------------------------------------------ pty.rs: ExitStatus
ExitStatus(code, signal) == [code |-> code, signal |-> signal]

Exited(s) == [kind |-> "Exited", v |-> s]
Signaled(n) == [kind |-> "Signaled", v |-> n]
StillAlive == [kind |-> "StillAlive", v |-> 0]

\* a parser that drops the status of a normal exit
parse_exit_status_no_code(status) ==
    CASE status.kind = "Signaled" -> ExitStatus(128 + status.v, Some(status.v))
      [] OTHER -> ExitStatus(1, NoneV)

\* a parser that derives the signal from a code above 128
parse_exit_status_signal_from_code(status) ==
    CASE status.kind = "Exited" ->
            ExitStatus(status.v, IF status.v > 128 THEN Some(status.v - 128) ELSE NoneV)
      [] status.kind = "Signaled" -> ExitStatus(128 + status.v, Some(status.v))
      [] OTHER -> ExitStatus(1, NoneV)

parse_exit_status(status) ==
    CASE status.kind = "Exited" -> ExitStatus(status.v, NoneV)
      [] status.kind = "Signaled" -> ExitStatus(128 + status.v, Some(status.v))
      [] OTHER -> ExitStatus(1, NoneV)


\* ------------------------------------------------------------------ state
VARIABLES
    \* the child process and its terminal
    child,          \* "running", "zombie" (terminated, not yet waited for) or "reaped"
    childStatus,    \* the wait status of the terminated child
    slaveOpen,      \* some process still holds the slave side open
    masterOut,      \* chunks written by the child, not yet read from the master fd
    nOut,           \* chunks the child has written so far
    hupSent,        \* drive_child has sent SIGHUP
    ptyWinsize,     \* the window size of the PTY (set by forkpty)
    \* the PTY driver task (pty.rs)
    drvPc,          \* "run", "drain", "send", "wait", "blockwait" or "done"
    drvChunk,       \* the chunk held while suspended in output_tx.send
    input,          \* do_drive_child's pending-write buffer
    runResult,      \* what do_drive_child returned: "none", "ok" or "err"
    ptyHandle,      \* what the driver future resolved with
    masterIn,       \* every byte written to the master fd so far
    \* channels and the API task
    inputChan, outChan, cmdChan, clientsChan,
    apiDone,        \* the stdio API task has ended (command_tx dropped)
    clientsTxOpen,  \* some sender of the clients channel is alive
    nCmds, nClients,
    probe,          \* the mouse event a client sends in the runs that probe the encoder
    cliSubscribe,   \* the --subscribe option as given: absent, or its value
    \* run_event_loop (main.rs)
    elPc,           \* "select", "sending" (suspended in input_tx.send) or "done"
    elPending,      \* byte vectors the current handler has still to send
    handled,        \* the commands the command branch took, in order; the last
                    \* one is being handled while elPc = "sending"
    serving, stdin_open, api_running, output_open,
    loopResult,     \* "none", "ok" (Ok(())) or "err" (the ? operator returned)
    sendLog,        \* every input_tx.send that completed: command id, bytes, outcome
    sessLog,        \* every call the loop made on the session, in order
    \* the session
    cols, rows, appMode, subs

childVars == <<child, childStatus, slaveOpen, masterOut, nOut, hupSent, ptyWinsize>>
drvVars == <<drvPc, drvChunk, input, runResult, ptyHandle, masterIn>>
chanVars == <<inputChan, outChan, cmdChan, clientsChan>>
apiVars == <<apiDone, clientsTxOpen, nCmds, nClients, probe, cliSubscribe>>
flagVars == <<serving, stdin_open, api_running, output_open>>
loopVars == <<elPc, elPending, handled, loopResult, sendLog>>
sessVars == <<cols, rows, appMode, subs, sessLog>>
vars == <<childVars, drvVars, chanVars, apiVars, flagVars, loopVars, sessVars>>

Pending == [kind |-> "pending", st |-> ExitStatus(0, NoneV)]
Resolved(st) == [kind |-> "status", st |-> st]
Failed == [kind |-> "err", st |-> ExitStatus(0, NoneV)]
JoinError == [kind |-> "joinerr", st |-> ExitStatus(0, NoneV)]

\* the process is running: main has not returned
Live == elPc # "done"

\* do_drive_child still holds input_rx and output_tx
InRunLoop == drvPc \in {"run", "drain", "send"}

InitOf(events, sizes, options) ==
    /\ probe \in events
    /\ cliSubscribe \in options
    /\ child = "running" /\ childStatus = StillAlive /\ slaveOpen = TRUE
    /\ masterOut = <<>> /\ nOut = 0 /\ hupSent = FALSE
    /\ \E sz \in sizes : ptyWinsize = sz /\ cols = sz[1] /\ rows = sz[2]
    /\ drvPc = "run" /\ drvChunk = "" /\ input = <<>> /\ runResult = "none"
    /\ ptyHandle = Pending /\ masterIn = <<>>
    /\ inputChan = <<>> /\ outChan = <<>> /\ cmdChan = <<>> /\ clientsChan = <<>>
    /\ apiDone = FALSE /\ clientsTxOpen = TRUE /\ nCmds = 0 /\ nClients = 0
    /\ elPc = "select" /\ elPending = <<>> /\ handled = <<>>
    /\ serving = TRUE /\ stdin_open = TRUE /\ api_running = TRUE /\ output_open = TRUE
    /\ loopResult = "none" /\ sendLog = <<>> /\ sessLog = <<>>
    /\ appMode = FALSE /\ subs = <<>>

\* no --subscribe option on the command line
InitFrom(events, sizes) == InitOf(events, sizes, {NoneV})

InitWith(events) == InitFrom(events, InitSizes)

Init == InitWith({NoEvent})

\* ------------------------------------------------------ the child process
ChildWrite(ch, max) ==
    /\ Live /\ child = "running" /\ slaveOpen /\ nOut < max
    /\ masterOut' = Append(masterOut, ch)
    /\ nOut' = nOut + 1
    /\ UNCHANGED <<child, childStatus, slaveOpen, hupSent, ptyWinsize>>
    /\ UNCHANGED <<drvVars, chanVars, apiVars, flagVars, loopVars, sessVars>>

ChildExits(s) ==
    /\ Live /\ child = "running"
    /\ child' = "zombie"
    /\ childStatus' = Exited(s)
    /\ UNCHANGED <<slaveOpen, masterOut, nOut, hupSent, ptyWinsize>>
    /\ UNCHANGED <<drvVars, chanVars, apiVars, flagVars, loopVars, sessVars>>

\* killed by a signal from outside, or by the SIGHUP drive_child sent
ChildSignaled(n) ==
    /\ Live /\ child = "running"
    /\ n = SIGHUP => hupSent
    /\ child' = "zombie"
    /\ childStatus' = Signaled(n)
    /\ UNCHANGED <<slaveOpen, masterOut, nOut, hupSent, ptyWinsize>>
    /\ UNCHANGED <<drvVars, chanVars, apiVars, flagVars, loopVars, sessVars>>

\* the last holder of the slave side closes it (the child itself, the kernel
\* at its exit, or a descendant later)
SlaveClose ==
    /\ Live /\ slaveOpen
    /\ slaveOpen' = FALSE
    /\ UNCHANGED <<child, childStatus, masterOut, nOut, hupSent, ptyWinsize>>
    /\ UNCHANGED <<drvVars, chanVars, apiVars, flagVars, loopVars, sessVars>>


\* ------------------------------------------------- pty.rs: do_drive_child
\* do_drive_child returns: input_rx and output_tx are dropped, and with them the
\* vectors still queued on the input channel and the pending-write buffer
EndRun(res) ==
    /\ drvPc' = "wait"
    /\ runResult' = res
    /\ input' = <<>>
    /\ inputChan' = <<>>

\* an input branch that puts the new vector in front of the pending bytes
DrvRecvInput_in_front ==
    /\ Live /\ drvPc = "run" /\ inputChan # <<>>
    /\ input' = Head(inputChan) \o input
    /\ inputChan' = Tail(inputChan)
    /\ UNCHANGED <<drvPc, drvChunk, runResult, ptyHandle, masterIn>>
    /\ UNCHANGED <<outChan, cmdChan, clientsChan>>
    /\ UNCHANGED <<childVars, apiVars, flagVars, loopVars, sessVars>>

\* input_rx.recv() => Some(data): input.extend_from_slice(&data).
\* (recv() yields None only once run_event_loop has returned, which happens only
\* after this loop has ended: that branch never runs.)
DrvRecvInput ==
    /\ Live /\ drvPc = "run" /\ inputChan # <<>>
    /\ input' = input \o Head(inputChan)
    /\ inputChan' = Tail(inputChan)
    /\ UNCHANGED <<drvPc, drvChunk, runResult, ptyHandle, masterIn>>
    /\ UNCHANGED <<outChan, cmdChan, clientsChan>>
    /\ UNCHANGED <<childVars, apiVars, flagVars, loopVars, sessVars>>

\* the master fd reports readable: data is buffered or the slave side is closed
MasterReadable == masterOut # <<>> \/ ~slaveOpen

\* a readable branch that offers the chunk without waiting and lets it go when
\* the output channel is full
DrvReadChunk_drop_on_full ==
    /\ Live
    /\ drvPc = "drain" \/ (drvPc = "run" /\ MasterReadable)
    /\ masterOut # <<>>
    /\ masterOut' = Tail(masterOut)
    /\ IF Len(outChan) >= ChanCap
       THEN drvChunk' = "" /\ drvPc' = "drain"
       ELSE drvChunk' = Head(masterOut) /\ drvPc' = "send"
    /\ UNCHANGED <<input, runResult, ptyHandle, masterIn>>
    /\ UNCHANGED <<child, childStatus, slaveOpen, nOut, hupSent, ptyWinsize>>
    /\ UNCHANGED <<chanVars, apiVars, flagVars, loopVars, sessVars>>

\* nbio::read => Some(n), n > 0: then output_tx.send(buf[0..n]).await
DrvReadChunk ==
    /\ Live
    /\ drvPc = "drain" \/ (drvPc = "run" /\ MasterReadable)
    /\ masterOut # <<>>
    /\ drvChunk' = Head(masterOut)
    /\ masterOut' = Tail(masterOut)
    /\ drvPc' = "send"
    /\ UNCHANGED <<input, runResult, ptyHandle, masterIn>>
    /\ UNCHANGED <<child, childStatus, slaveOpen, nOut, hupSent, ptyWinsize>>
    /\ UNCHANGED <<chanVars, apiVars, flagVars, loopVars, sessVars>>

\* output_tx.send(..).await completes once the output channel has room
\* (output_rx lives as long as run_event_loop, so the send never fails here)
DrvSendOut ==
    /\ Live /\ drvPc = "send"
    /\ Len(outChan) < ChanCap
    /\ outChan' = Append(outChan, drvChunk)
    /\ drvChunk' = ""
    /\ drvPc' = "drain"
    /\ UNCHANGED <<input, runResult, ptyHandle, masterIn>>
    /\ UNCHANGED <<inputChan, cmdChan, clientsChan>>
    /\ UNCHANGED <<childVars, apiVars, flagVars, loopVars, sessVars>>

\* a drain loop that takes Some(0) for would-block and goes back to the select
DrvReadEof_would_block ==
    /\ Live
    /\ drvPc \in {"run", "drain"}
    /\ masterOut = <<>> /\ ~slaveOpen
    /\ drvPc' = "run"
    /\ UNCHANGED <<input, runResult, inputChan>>
    /\ UNCHANGED <<drvChunk, ptyHandle, masterIn>>
    /\ UNCHANGED <<outChan, cmdChan, clientsChan>>
    /\ UNCHANGED <<childVars, apiVars, flagVars, loopVars, sessVars>>

\* nbio::read => Some(0): return Ok(())
DrvReadEof ==
    /\ Live
    /\ drvPc \in {"run", "drain"}
    /\ masterOut = <<>> /\ ~slaveOpen
    /\ EndRun("ok")
    /\ UNCHANGED <<drvChunk, ptyHandle, masterIn>>
    /\ UNCHANGED <<outChan, cmdChan, clientsChan>>
    /\ UNCHANGED <<childVars, apiVars, flagVars, loopVars, sessVars>>

\* nbio::read => None: guard.clear_ready(); break
DrvReadWouldBlock ==
    /\ Live /\ drvPc = "drain"
    /\ masterOut = <<>> /\ slaveOpen
    /\ drvPc' = "run"
    /\ UNCHANGED <<drvChunk, input, runResult, ptyHandle, masterIn>>
    /\ UNCHANGED <<childVars, chanVars, apiVars, flagVars, loopVars, sessVars>>

\* a system error other than would-block on the master fd: readable(), read,
\* writable() or write returns Err and the ? operator returns it
DrvIoErr ==
    /\ Live /\ drvPc \in {"run", "drain"}
    /\ EndRun("err")
    /\ UNCHANGED <<drvChunk, ptyHandle, masterIn>>
    /\ UNCHANGED <<outChan, cmdChan, clientsChan>>
    /\ UNCHANGED <<childVars, apiVars, flagVars, loopVars, sessVars>>

\* a writable pass that releases as many bytes as are left instead of as many
\* as were written
DrvWrite_drain_left(k) ==
    /\ Live /\ drvPc = "run" /\ input # <<>>
    /\ k \in 1..Len(input)
    /\ masterIn' = masterIn \o SubSeq(input, 1, k)
    /\ input' = SubSeq(input, (Len(input) - k) + 1, Len(input))
    /\ UNCHANGED <<drvPc, drvChunk, runResult, ptyHandle>>
    /\ UNCHANGED <<childVars, chanVars, apiVars, flagVars, loopVars, sessVars>>

\* master_fd.writable(), if !input.is_empty(): one pass of the write loop writes
\* the first k bytes (Some(n) results adding up to k), then ends on an empty
\* slice or on None; the buffer keeps the unwritten suffix
DrvWrite(k) ==
    /\ Live /\ drvPc = "run" /\ input # <<>>
    /\ k \in 1..Len(input)
    /\ masterIn' = masterIn \o SubSeq(input, 1, k)
    /\ input' = SubSeq(input, k + 1, Len(input))
    /\ UNCHANGED <<drvPc, drvChunk, runResult, ptyHandle>>
    /\ UNCHANGED <<childVars, chanVars, apiVars, flagVars, loopVars, sessVars>>

\* nbio::write => Some(0) after k bytes were written: return Ok(())
DrvWriteZero(k) ==
    /\ Live /\ drvPc = "run" /\ input # <<>>
    /\ k \in 0..(Len(input) - 1)
    /\ masterIn' = masterIn \o SubSeq(input, 1, k)
    /\ EndRun("ok")
    /\ UNCHANGED <<drvChunk, ptyHandle>>
    /\ UNCHANGED <<outChan, cmdChan, clientsChan>>
    /\ UNCHANGED <<childVars, apiVars, flagVars, loopVars, sessVars>>

\* ---------------------------------------------------- pty.rs: drive_child
\* a driver that returns the wait status whatever the run loop returned
Finish_status_wins(wait_status) ==
    /\ drvPc' = "done"
    /\ ptyHandle' = Resolved(parse_exit_status(wait_status))

\* result?; Ok(parse_exit_status(wait_status))
Finish(wait_status) ==
    /\ drvPc' = "done"
    /\ ptyHandle' = IF runResult = "err" THEN Failed
                    ELSE Resolved(parse_exit_status(wait_status))

\* waitpid(child, WNOHANG): StillAlive => kill(child, SIGHUP), then the blocking
\* waitpid; any other status is the child's final status
DrvWaitNohang ==
    /\ Live /\ drvPc = "wait"
    /\ \/ /\ child = "running"
          /\ hupSent' = TRUE
          /\ drvPc' = "blockwait"
          /\ UNCHANGED <<child, ptyHandle>>
       \/ /\ child = "zombie"
          /\ child' = "reaped"
          /\ Finish(childStatus)
          /\ UNCHANGED hupSent
    /\ UNCHANGED <<childStatus, slaveOpen, masterOut, nOut, ptyWinsize>>
    /\ UNCHANGED <<drvChunk, input, runResult, masterIn>>
    /\ UNCHANGED <<chanVars, apiVars, flagVars, loopVars, sessVars>>

\* waitpid(child, None) returns once the child has terminated
DrvBlockWait ==
    /\ Live /\ drvPc = "blockwait"
    /\ child = "zombie"
    /\ child' = "reaped"
    /\ Finish(childStatus)
    /\ UNCHANGED <<childStatus, slaveOpen, masterOut, nOut, hupSent, ptyWinsize>>
    /\ UNCHANGED <<drvChunk, input, runResult, masterIn>>
    /\ UNCHANGED <<chanVars, apiVars, flagVars, loopVars, sessVars>>

\* waitpid returns Err (ECHILD, EINTR): .await.unwrap()? returns it
DrvWaitErr ==
    /\ Live /\ drvPc \in {"wait", "blockwait"}
    /\ drvPc' = "done"
    /\ ptyHandle' = Failed
    /\ UNCHANGED <<drvChunk, input, runResult, masterIn>>
    /\ UNCHANGED <<childVars, chanVars, apiVars, flagVars, loopVars, sessVars>>

\* the blocking closure panics: .unwrap() panics and the task ends in a JoinError
DrvTaskFail ==
    /\ Live /\ drvPc = "wait"
    /\ drvPc' = "done"
    /\ ptyHandle' = JoinError
    /\ UNCHANGED <<drvChunk, input, runResult, masterIn>>
    /\ UNCHANGED <<childVars, chanVars, apiVars, flagVars, loopVars, sessVars>>


\* ------------------------------------------------- api.rs: Subscription
NoSubscription ==
    [init |-> FALSE, snapshot |-> FALSE, resize |-> FALSE, output |-> FALSE, exit |-> FALSE]

\* a match whose "exit" arm also sets output
SetEvent_exit_sets_output(sub, event) ==
    CASE event = "init" -> [sub EXCEPT !.init = TRUE]
      [] event = "output" -> [sub EXCEPT !.output = TRUE]
      [] event = "resize" -> [sub EXCEPT !.resize = TRUE]
      [] event = "snapshot" -> [sub EXCEPT !.snapshot = TRUE]
      [] event = "exit" -> [sub EXCEPT !.exit = TRUE, !.output = TRUE]

\* one arm of the match in Subscription::from_str
SetEvent(sub, event) ==
    CASE event = "init" -> [sub EXCEPT !.init = TRUE]
      [] event = "output" -> [sub EXCEPT !.output = TRUE]
      [] event = "resize" -> [sub EXCEPT !.resize = TRUE]
      [] event = "snapshot" -> [sub EXCEPT !.snapshot = TRUE]
      [] event = "exit" -> [sub EXCEPT !.exit = TRUE]

\* s.split(','): the value is written as pieces of text and commas; the
\* elements are the texts between the commas, empty ones included
RECURSIVE SplitFrom(_, _)
SplitFrom(pieces, cur) ==
    IF pieces = <<>> THEN <<cur>>
    ELSE IF Head(pieces) = "," THEN <<cur>> \o SplitFrom(Tail(pieces), "")
    ELSE SplitFrom(Tail(pieces), cur \o Head(pieces))

split(value) == SplitFrom(value, "")

\* a parser that passes over the elements it does not know
RECURSIVE FromStrFrom_skip_unknown(_, _)
FromStrFrom_skip_unknown(names, sub) ==
    IF names = <<>> THEN [ok |-> TRUE, sub |-> sub]
    ELSE IF Head(names) \notin EventTypes THEN FromStrFrom_skip_unknown(Tail(names), sub)
    ELSE FromStrFrom_skip_unknown(Tail(names), SetEvent(sub, Head(names)))

\* Subscription::from_str on the elements s.split(',') yields
RECURSIVE FromStrFrom(_, _)
FromStrFrom(names, sub) ==
    IF names = <<>> THEN [ok |-> TRUE, sub |-> sub]
    ELSE IF Head(names) \notin EventTypes THEN [ok |-> FALSE, sub |-> NoSubscription]
    ELSE FromStrFrom(Tail(names), SetEvent(sub, Head(names)))

from_str(names) == FromStrFrom(names, NoSubscription)

\* the subscription as a set of event types
SubSet(sub) == {t \in EventTypes : sub[t]}

\* the --subscribe option after the command line is parsed: the elements of
\* its value and from_str's result, or nothing to parse when it is absent
cli_subscribe(option) ==
    IF option = NoneV THEN [ok |-> TRUE, names |-> <<>>, sub |-> NoSubscription]
    ELSE [ok |-> from_str(split(option[1])).ok,
          names |-> split(option[1]),
          sub |-> from_str(split(option[1])).sub]

\* ------------------------------------------------ the session and fan-out
Event(type, data) == [type |-> type, data |-> data]
Call(op, data) == [op |-> op, data |-> data]

\* outputs fed to the emulator so far: what a snapshot of the screen reflects
Fed(log) == Len(SelectSeq(log, LAMBDA c : c.op = "output"))

\* the subscriber's queue can take one more event: its client still holds the
\* receiving side and fewer than cap events wait in it
CanTake(s) == s.open /\ s.pending < s.cap

\* an event is offered, without waiting, to the live subscribers that subscribed
\* to its type: enqueued where the queue can take it, and the subscriber whose
\* queue is full or closed is dropped
Deliver(ss, ev) ==
    [i \in DOMAIN ss |->
        IF ss[i].alive /\ ev.type \in SubSet(ss[i].sub)
        THEN IF CanTake(ss[i])
             THEN [ss[i] EXCEPT !.evs = Append(@, ev), !.pending = @ + 1]
             ELSE [ss[i] EXCEPT !.alive = FALSE]
        ELSE ss[i]]

\* String::from_utf8_lossy: a chunk that is not valid UTF-8 comes out with
\* replacement characters
from_utf8_lossy(data) == IF data = "bad" THEN "fffd" ELSE data

\* the emulator's cursor-key mode after consuming a chunk
ModeAfter(mode, text) ==
    CASE text = "appOn" -> TRUE
      [] text = "appOff" -> FALSE
      [] OTHER -> mode

SessionOutput(text) ==
    /\ appMode' = ModeAfter(appMode, text)
    /\ subs' = Deliver(subs, Event("output", <<text>>))
    /\ sessLog' = Append(sessLog, Call("output", <<text>>))
    /\ UNCHANGED <<cols, rows>>

SessionResize(c, r) ==
    /\ cols' = c
    /\ rows' = r
    /\ subs' = Deliver(subs, Event("resize", <<c, r>>))
    /\ sessLog' = Append(sessLog, Call("resize", <<c, r>>))
    /\ UNCHANGED appMode

SessionSnapshot ==
    /\ subs' = Deliver(subs, Event("snapshot", <<Fed(sessLog)>>))
    /\ sessLog' = Append(sessLog, Call("snapshot", <<>>))
    /\ UNCHANGED <<cols, rows, appMode>>

SessionExit(code, signal) ==
    /\ subs' = Deliver(subs, Event("exit", <<code, signal>>))
    /\ sessLog' = Append(sessLog, Call("exit", <<code, signal>>))
    /\ UNCHANGED <<cols, rows, appMode>>

\* session.subscribe(): the bootstrap, init then a snapshot of the screen
Bootstrap == <<Event("init", <<cols, rows, Pid>>), Event("snapshot", <<Fed(sessLog)>>)>>

\* client.accept(..): the client takes from the bootstrap what it subscribed to
\* (the snapshot only if it wants one) and is spliced onto the live events,
\* which reach it through its own queue of cap places. evs is everything handed
\* to the client so far, pending the live events it has not read yet, at the
\* number of session calls made before the subscription
Accept(client, boot) ==
    [sub |-> client.sub,
     names |-> client.names,
     evs |-> SelectSeq(boot, LAMBDA e :
                /\ e.type \in SubSet(client.sub)
                /\ e.type = "snapshot" => client.snap),
     snap |-> client.snap,
     pending |-> 0,
     cap |-> client.cap,
     open |-> TRUE,
     at |-> Len(sessLog),
     alive |-> TRUE]

SessionSubscribe(client) ==
    /\ subs' = Append(subs, Accept(client, Bootstrap))
    /\ sessLog' = Append(sessLog, Call("subscribe", <<>>))
    /\ UNCHANGED <<cols, rows, appMode>>


\* ------------------------------------------------ main.rs: run_event_loop
\* validate_mouse_coordinates: whether the warning is printed (nothing else happens)
validate_mouse_coordinates(mouse_event) ==
    mouse_event.row > rows \/ mouse_event.col > cols

\* a handler that serialises with the mode in force when the command was queued
InputData_queue_mode(c) == <<seqs_to_bytes(c.cmd.seqs, c.qmode)>>

\* Command::Input: command::seqs_to_bytes(&seqs, session.cursor_key_app_mode())
InputData(c) == <<seqs_to_bytes(c.cmd.seqs, appMode)>>

\* Command::Mouse: command::mouse_to_bytes(&mouse_event)
MouseData(e) == <<mouse_to_bytes(e)>>

\* a handler whose second event keeps the type the client sent
MouseClickData_keep_type(e) ==
    <<mouse_to_bytes([e EXCEPT !.event_type = "Press"]), mouse_to_bytes(e)>>

\* Command::MouseClick: press_data, then release_data
MouseClickData(e) ==
    <<mouse_to_bytes([e EXCEPT !.event_type = "Press"]),
      mouse_to_bytes([e EXCEPT !.event_type = "Release"])>>

\* the command being handled, or the last one handled
Cur == handled[Len(handled)]

\* the command branch was selected and took c off the command channel; the record
\* keeps the mode at queueing and at dispatch, whether the warning was printed
\* and how many session calls came before
Dispatch(c, warned) ==
    /\ cmdChan' = Tail(cmdChan)
    /\ handled' = Append(handled,
                     [cmd |-> c.cmd, id |-> c.id, qmode |-> c.qmode, dmode |-> appMode,
                      warned |-> warned, at |-> Len(sessLog)])

\* a child_exit branch without the break
ELChildExit_no_break ==
    /\ elPc = "select" /\ ptyHandle.kind # "pending"
    /\ IF ptyHandle.kind = "status"
       THEN SessionExit(ptyHandle.st.code, ptyHandle.st.signal)
       ELSE SessionExit(1, NoneV)
    /\ UNCHANGED <<elPc, loopResult>>
    /\ UNCHANGED <<elPending, handled, sendLog>>
    /\ UNCHANGED <<childVars, drvVars, chanVars, apiVars, flagVars>>

\* result = &mut pty_handle => session.exit(..); break
ELChildExit ==
    /\ elPc = "select" /\ ptyHandle.kind # "pending"
    /\ IF ptyHandle.kind = "status"
       THEN SessionExit(ptyHandle.st.code, ptyHandle.st.signal)
       ELSE SessionExit(1, NoneV)
    /\ elPc' = "done"
    /\ loopResult' = "ok"
    /\ UNCHANGED <<elPending, handled, sendLog>>
    /\ UNCHANGED <<childVars, drvVars, chanVars, apiVars, flagVars>>

\* an output branch that waits until every subscriber of output has room
ELOutput_awaits_room ==
    /\ elPc = "select" /\ output_open /\ outChan # <<>>
    /\ \A i \in DOMAIN subs :
          (subs[i].alive /\ "output" \in SubSet(subs[i].sub)) => CanTake(subs[i])
    /\ SessionOutput(from_utf8_lossy(Head(outChan)))
    /\ outChan' = Tail(outChan)
    /\ UNCHANGED <<inputChan, cmdChan, clientsChan>>
    /\ UNCHANGED <<childVars, drvVars, apiVars, flagVars, loopVars>>

\* output_rx.recv(), if output_open => Some(data)
ELOutput ==
    /\ elPc = "select" /\ output_open /\ outChan # <<>>
    /\ SessionOutput(from_utf8_lossy(Head(outChan)))
    /\ outChan' = Tail(outChan)
    /\ UNCHANGED <<inputChan, cmdChan, clientsChan>>
    /\ UNCHANGED <<childVars, drvVars, apiVars, flagVars, loopVars>>

\* output_rx.recv(), if output_open => None
ELOutputClosed ==
    /\ elPc = "select" /\ output_open /\ outChan = <<>> /\ ~InRunLoop
    /\ output_open' = FALSE
    /\ UNCHANGED <<serving, stdin_open, api_running>>
    /\ UNCHANGED <<childVars, drvVars, chanVars, apiVars, loopVars, sessVars>>

\* Some(Command::Input(seqs))
ELInput ==
    /\ elPc = "select" /\ stdin_open /\ cmdChan # <<>>
    /\ Head(cmdChan).cmd.type = "Input"
    /\ Dispatch(Head(cmdChan), FALSE)
    /\ elPending' = InputData(Head(cmdChan))
    /\ elPc' = "sending"
    /\ UNCHANGED <<loopResult, sendLog>>
    /\ UNCHANGED <<inputChan, outChan, clientsChan>>
    /\ UNCHANGED <<childVars, drvVars, apiVars, flagVars, sessVars>>

\* a Mouse arm that grows the window to hold an event that lies outside it
ELMouse_fit_window ==
    /\ elPc = "select" /\ stdin_open /\ cmdChan # <<>>
    /\ Head(cmdChan).cmd.type = "Mouse"
    /\ Dispatch(Head(cmdChan), validate_mouse_coordinates(Head(cmdChan).cmd.ev))
    /\ IF validate_mouse_coordinates(Head(cmdChan).cmd.ev)
       THEN SessionResize(IF Head(cmdChan).cmd.ev.col > cols THEN Head(cmdChan).cmd.ev.col ELSE cols,
                          IF Head(cmdChan).cmd.ev.row > rows THEN Head(cmdChan).cmd.ev.row ELSE rows)
       ELSE UNCHANGED sessVars
    /\ elPending' = MouseData(Head(cmdChan).cmd.ev)
    /\ elPc' = "sending"
    /\ UNCHANGED <<loopResult, sendLog>>
    /\ UNCHANGED <<inputChan, outChan, clientsChan>>
    /\ UNCHANGED <<childVars, drvVars, apiVars, flagVars>>

\* Some(Command::Mouse(mouse_event))
ELMouse ==
    /\ elPc = "select" /\ stdin_open /\ cmdChan # <<>>
    /\ Head(cmdChan).cmd.type = "Mouse"
    /\ Dispatch(Head(cmdChan), validate_mouse_coordinates(Head(cmdChan).cmd.ev))
    /\ elPending' = MouseData(Head(cmdChan).cmd.ev)
    /\ elPc' = "sending"
    /\ UNCHANGED <<loopResult, sendLog>>
    /\ UNCHANGED <<inputChan, outChan, clientsChan>>
    /\ UNCHANGED <<childVars, drvVars, apiVars, flagVars, sessVars>>

\* Some(Command::MouseClick(mouse_event))
ELMouseClick ==
    /\ elPc = "select" /\ stdin_open /\ cmdChan # <<>>
    /\ Head(cmdChan).cmd.type = "MouseClick"
    /\ Dispatch(Head(cmdChan), validate_mouse_coordinates(Head(cmdChan).cmd.ev))
    /\ elPending' = MouseClickData(Head(cmdChan).cmd.ev)
    /\ elPc' = "sending"
    /\ UNCHANGED <<loopResult, sendLog>>
    /\ UNCHANGED <<inputChan, outChan, clientsChan>>
    /\ UNCHANGED <<childVars, drvVars, apiVars, flagVars, sessVars>>

\* input_tx.send(data).await completes: the vector is queued
ELSendOk ==
    /\ elPc = "sending" /\ InRunLoop
    /\ Len(inputChan) < ChanCap
    /\ inputChan' = Append(inputChan, Head(elPending))
    /\ sendLog' = Append(sendLog, [id |-> Cur.id, bytes |-> Head(elPending), ok |-> TRUE])
    /\ elPending' = Tail(elPending)
    /\ elPc' = IF Tail(elPending) = <<>> THEN "select" ELSE "sending"
    /\ UNCHANGED <<handled, loopResult>>
    /\ UNCHANGED <<outChan, cmdChan, clientsChan>>
    /\ UNCHANGED <<childVars, drvVars, apiVars, flagVars, sessVars>>

\* input_tx.send(data).await? with input_rx dropped: run_event_loop returns Err
ELSendClosed ==
    /\ elPc = "sending" /\ ~InRunLoop
    /\ sendLog' = Append(sendLog, [id |-> Cur.id, bytes |-> Head(elPending), ok |-> FALSE])
    /\ elPending' = <<>>
    /\ elPc' = "done"
    /\ loopResult' = "err"
    /\ UNCHANGED handled
    /\ UNCHANGED <<childVars, drvVars, chanVars, apiVars, flagVars, sessVars>>

\* Some(Command::Snapshot)
ELSnapshot ==
    /\ elPc = "select" /\ stdin_open /\ cmdChan # <<>>
    /\ Head(cmdChan).cmd.type = "Snapshot"
    /\ Dispatch(Head(cmdChan), FALSE)
    /\ SessionSnapshot
    /\ UNCHANGED <<elPc, elPending, loopResult, sendLog>>
    /\ UNCHANGED <<inputChan, outChan, clientsChan>>
    /\ UNCHANGED <<childVars, drvVars, apiVars, flagVars>>

\* a Resize arm that leaves the session alone when the size does not change
ELResize_skip_same ==
    /\ elPc = "select" /\ stdin_open /\ cmdChan # <<>>
    /\ Head(cmdChan).cmd.type = "Resize"
    /\ Dispatch(Head(cmdChan), FALSE)
    /\ IF <<Head(cmdChan).cmd.cols, Head(cmdChan).cmd.rows>> = <<cols, rows>>
       THEN UNCHANGED sessVars
       ELSE SessionResize(Head(cmdChan).cmd.cols, Head(cmdChan).cmd.rows)
    /\ UNCHANGED <<elPc, elPending, loopResult, sendLog>>
    /\ UNCHANGED <<inputChan, outChan, clientsChan>>
    /\ UNCHANGED <<childVars, drvVars, apiVars, flagVars>>

\* Some(Command::Resize(cols, rows))
ELResize ==
    /\ elPc = "select" /\ stdin_open /\ cmdChan # <<>>
    /\ Head(cmdChan).cmd.type = "Resize"
    /\ Dispatch(Head(cmdChan), FALSE)
    /\ SessionResize(Head(cmdChan).cmd.cols, Head(cmdChan).cmd.rows)
    /\ UNCHANGED <<elPc, elPending, loopResult, sendLog>>
    /\ UNCHANGED <<inputChan, outChan, clientsChan>>
    /\ UNCHANGED <<childVars, drvVars, apiVars, flagVars>>

\* command_rx.recv(), if stdin_open => None
ELStdinClosed ==
    /\ elPc = "select" /\ stdin_open /\ cmdChan = <<>> /\ apiDone
    /\ stdin_open' = FALSE
    /\ UNCHANGED <<serving, api_running, output_open>>
    /\ UNCHANGED <<childVars, drvVars, chanVars, apiVars, loopVars, sessVars>>

\* a client_arrival branch that hands the client the live tap without the bootstrap
ELClient_no_bootstrap ==
    /\ elPc = "select" /\ serving /\ clientsChan # <<>>
    /\ subs' = Append(subs, Accept(Head(clientsChan), <<>>))
    /\ sessLog' = Append(sessLog, Call("subscribe", <<>>))
    /\ UNCHANGED <<cols, rows, appMode>>
    /\ clientsChan' = Tail(clientsChan)
    /\ UNCHANGED <<inputChan, outChan, cmdChan>>
    /\ UNCHANGED <<childVars, drvVars, apiVars, flagVars, loopVars>>

\* a client_arrival branch that takes the bootstrap, lets a queued chunk into
\* the session, and only then splices the client on
ELClient_late_splice ==
    /\ elPc = "select" /\ serving /\ clientsChan # <<>>
    /\ IF output_open /\ outChan # <<>>
       THEN LET text == from_utf8_lossy(Head(outChan))
            IN  /\ appMode' = ModeAfter(appMode, text)
                /\ subs' = Append(Deliver(subs, Event("output", <<text>>)),
                                  Accept(Head(clientsChan), Bootstrap))
                /\ sessLog' = sessLog \o <<Call("subscribe", <<>>), Call("output", <<text>>)>>
                /\ outChan' = Tail(outChan)
                /\ UNCHANGED <<cols, rows>>
       ELSE /\ SessionSubscribe(Head(clientsChan))
            /\ UNCHANGED outChan
    /\ clientsChan' = Tail(clientsChan)
    /\ UNCHANGED <<inputChan, cmdChan>>
    /\ UNCHANGED <<childVars, drvVars, apiVars, flagVars, loopVars>>

\* clients_rx.recv(), if serving => Some(client)
ELClient ==
    /\ elPc = "select" /\ serving /\ clientsChan # <<>>
    /\ SessionSubscribe(Head(clientsChan))
    /\ clientsChan' = Tail(clientsChan)
    /\ UNCHANGED <<inputChan, outChan, cmdChan>>
    /\ UNCHANGED <<childVars, drvVars, apiVars, flagVars, loopVars>>

\* clients_rx.recv(), if serving => None
ELClientsClosed ==
    /\ elPc = "select" /\ serving /\ clientsChan = <<>> /\ ~clientsTxOpen
    /\ serving' = FALSE
    /\ UNCHANGED <<stdin_open, api_running, output_open>>
    /\ UNCHANGED <<childVars, drvVars, chanVars, apiVars, loopVars, sessVars>>

\* an api branch that leaves the loop when the API task has ended
ELApi_break ==
    /\ elPc = "select" /\ api_running /\ apiDone
    /\ api_running' = FALSE
    /\ elPc' = "done"
    /\ loopResult' = "ok"
    /\ UNCHANGED <<serving, stdin_open, output_open>>
    /\ UNCHANGED <<elPending, handled, sendLog>>
    /\ UNCHANGED <<childVars, drvVars, chanVars, apiVars, sessVars>>

\* _ = &mut api_handle, if api_running
ELApi ==
    /\ elPc = "select" /\ api_running /\ apiDone
    /\ api_running' = FALSE
    /\ UNCHANGED <<serving, stdin_open, output_open>>
    /\ UNCHANGED <<childVars, drvVars, chanVars, apiVars, loopVars, sessVars>>

\* main: the exit code of the process once run_event_loop has returned
ProcessExitCode == IF loopResult = "ok" THEN 0 ELSE 1

\* ------------------------------------------- the API task and the clients
\* a transport sends a command (command_tx.send)
ApiSend(c, max) ==
    /\ Live /\ ~apiDone /\ nCmds < max /\ Len(cmdChan) < ChanCap
    /\ cmdChan' = Append(cmdChan, [cmd |-> c, id |-> nCmds + 1, qmode |-> appMode])
    /\ nCmds' = nCmds + 1
    /\ UNCHANGED <<apiDone, clientsTxOpen, nClients, probe, cliSubscribe>>
    /\ UNCHANGED <<inputChan, outChan, clientsChan>>
    /\ UNCHANGED <<childVars, drvVars, flagVars, loopVars, sessVars>>

\* a client built from a --subscribe value (names: the elements of s.split(','))
QueueClient(names, snap, cap) ==
    [names |-> names, sub |-> from_str(names).sub, snap |-> snap, cap |-> cap]

\* a queue with room for every event of a bounded run: a client that keeps up
Roomy == MaxOut + MaxCmds + 1

Client(names, snap) == QueueClient(names, snap, Roomy)

\* a transport hands a new client to the loop (clients_tx.send)
ClientArrive(cl, max) ==
    /\ Live /\ clientsTxOpen /\ nClients < max /\ Len(clientsChan) < ClientsCap
    /\ clientsChan' = Append(clientsChan, cl)
    /\ nClients' = nClients + 1
    /\ UNCHANGED <<apiDone, clientsTxOpen, nCmds, probe, cliSubscribe>>
    /\ UNCHANGED <<inputChan, outChan, cmdChan>>
    /\ UNCHANGED <<childVars, drvVars, flagVars, loopVars, sessVars>>

\* start_stdio_api(command_tx, clients_tx, cli.subscribe.unwrap_or_default()):
\* the stdio client arrives with the subscription of the command line, the
\* empty one when the option is absent; a value that does not parse ends the
\* program before anything is started
StdioClient ==
    /\ cli_subscribe(cliSubscribe).ok
    /\ ClientArrive(QueueClient(cli_subscribe(cliSubscribe).names, FALSE, Roomy), 1)

\* the client of the i-th subscriber reads one event from its queue
ClientRead(i) ==
    /\ Live /\ i \in DOMAIN subs
    /\ subs[i].open /\ subs[i].pending > 0
    /\ subs' = [subs EXCEPT ![i].pending = @ - 1]
    /\ UNCHANGED <<cols, rows, appMode, sessLog>>
    /\ UNCHANGED <<childVars, drvVars, chanVars, apiVars, flagVars, loopVars>>

\* the client of the i-th subscriber disconnects: its queue is dropped
ClientClose(i) ==
    /\ Live /\ i \in DOMAIN subs
    /\ subs[i].open
    /\ subs' = [subs EXCEPT ![i].open = FALSE]
    /\ UNCHANGED <<cols, rows, appMode, sessLog>>
    /\ UNCHANGED <<childVars, drvVars, chanVars, apiVars, flagVars, loopVars>>

\* the stdio API task ends: command_tx is dropped, and the clients channel
\* closes too unless the HTTP listener holds a sender
ApiEnd(http) ==
    /\ Live /\ ~apiDone
    /\ apiDone' = TRUE
    /\ clientsTxOpen' = http
    /\ UNCHANGED <<nCmds, nClients, probe, cliSubscribe>>
    /\ UNCHANGED <<childVars, drvVars, chanVars, flagVars, loopVars, sessVars>>

\* ------------------------------------------------------ the inputs drawn
NoMods == [shift |-> FALSE, alt |-> FALSE, control |-> FALSE]
Mods(s, a, c) == [shift |-> s, alt |-> a, control |-> c]

\* Input commands
InputCommands ==
    { CmdInput(<<Cursor(<<"n">>, <<"a">>), Standard(<<"x">>)>>),
      CmdInput(<<Standard(<<"y", "z">>), Cursor(<<"N">>, <<"A", "B">>)>>) }

\* commands that write to the PTY
ByteCommands ==
    InputCommands
    \cup { CmdMouse(MouseEvent("Release", "Right", 13, 1, Mods(TRUE, FALSE, TRUE))),
           CmdMouseClick(MouseEvent("Drag", "WheelUp", 1, 2, Mods(FALSE, TRUE, FALSE))) }

\* commands that act on the session
SessionCommands == { CmdSnapshot, CmdResize(3, 2), CmdResize(5, 4) }

Clients ==
    { Client(<<"exit">>, FALSE),
      Client(<<"init", "output">>, FALSE),
      Client(<<"output", "init", "resize", "snapshot", "exit", "init">>, TRUE) }

\* clients with a queue of one place
SlowClients == { QueueClient(<<"output", "exit">>, FALSE, 1) }

\* ---------------------------------------------------------- the processes
ChildStep(chunks, codes) ==
    \/ \E ch \in chunks : ChildWrite(ch, MaxOut)
    \/ \E s \in codes : ChildExits(s)
    \/ SlaveClose

\* the driver's output side and its reaping of the child
DriverStep ==
    \/ DrvReadChunk
    \/ DrvSendOut
    \/ DrvReadEof
    \/ DrvReadWouldBlock
    \/ DrvWaitNohang
    \/ DrvBlockWait

\* the driver's failures
DriverFailStep ==
    \/ DrvIoErr
    \/ DrvWaitErr
    \/ DrvTaskFail

\* the driver's input side
DriverInputStep ==
    \/ DrvRecvInput
    \/ \E k \in 1..Len(input) : DrvWrite(k)
    \/ \E k \in 0..Len(input) : DrvWriteZero(k)

\* the loop's child_exit and output branches
LoopStep ==
    \/ ELChildExit
    \/ ELOutput
    \/ ELOutputClosed

\* the loop's command branch for the commands that write to the PTY
LoopByteStep ==
    \/ ELInput
    \/ ELMouse
    \/ ELMouseClick
    \/ ELSendOk
    \/ ELSendClosed

\* the loop's command branch for the commands that act on the session
LoopSessionStep ==
    \/ ELSnapshot
    \/ ELResize

\* the API task ending and the branches that latch a closed source
CloseStep ==
    \/ \E http \in BOOLEAN : ApiEnd(http)
    \/ ELStdinClosed
    \/ ELClientsClosed
    \/ ELApi

\* ----------------------------------------------------- the specifications
\* the whole system
Next ==
    \/ ChildStep(Chunks, ExitCodes)
    \/ \E n \in KillSignals \cup {SIGHUP} : ChildSignaled(n)
    \/ DriverStep
    \/ DriverFailStep
    \/ DriverInputStep
    \/ LoopStep
    \/ LoopByteStep
    \/ LoopSessionStep
    \/ CloseStep
    \/ \E c \in ByteCommands \cup SessionCommands : ApiSend(c, MaxCmds)
    \/ \E cl \in Clients \cup SlowClients : ClientArrive(cl, MaxClients)
    \/ ELClient
    \/ \E i \in DOMAIN subs : ClientRead(i)
    \/ \E i \in DOMAIN subs : ClientClose(i)

Spec == Init /\ [][Next]_vars

\* the child's termination and the exit status: no command is sent and no
\* client arrives
NextExit ==
    \/ ChildStep(Chunks, ExitCodes)
    \/ \E n \in KillSignals \cup {SIGHUP} : ChildSignaled(n)
    \/ DriverStep
    \/ DriverFailStep
    \/ LoopStep
    \/ CloseStep

SpecExit == Init /\ [][NextExit]_vars

\* the same runs, with the loop's select polling the driver's handle on every
\* turn: the child_exit branch is taken once it stays ready
SpecExitFair == Init /\ [][NextExit]_vars /\ WF_vars(ELChildExit)

\* the fan-out to subscribers: the commands sent act on the session only
NextSub ==
    \/ ChildStep({"bad"}, {0})
    \/ DriverStep
    \/ LoopStep
    \/ LoopSessionStep
    \/ \E c \in {CmdSnapshot, CmdResize(5, 4)} : ApiSend(c, MaxCmds)
    \/ \E cl \in Clients : ClientArrive(cl, MaxClients)
    \/ ELClient

SpecSub == Init /\ [][NextSub]_vars

\* the bootstrap: a client that wants everything arrives at any moment of a
\* session that is fed a chunk, resized and asked for snapshots
BootClients == { Client(<<"init", "output", "resize", "snapshot", "exit">>, TRUE),
                 Client(<<"output", "exit">>, FALSE) }

NextBoot ==
    \/ ChildWrite("bad", MaxOut)
    \/ ChildExits(0)
    \/ SlaveClose
    \/ DrvReadChunk
    \/ DrvSendOut
    \/ DrvReadEof
    \/ DrvWaitNohang
    \/ DrvBlockWait
    \/ ELChildExit
    \/ ELOutput
    \/ LoopSessionStep
    \/ \E c \in {CmdSnapshot, CmdResize(5, 4)} : ApiSend(c, MaxCmds)
    \/ \E cl \in BootClients : ClientArrive(cl, MaxClients)
    \/ ELClient

SpecBoot == Init /\ [][NextBoot]_vars

\* the --subscribe option: absent, or one of these values, well formed or not
SubscribeArgs ==
    { <<"exit">>,
      <<"init", ",", "output">>,
      <<"in", "it">>,
      <<"exit", ",", "exit">>,
      <<"output", ",", "init", ",", "resize", ",", "snapshot", ",", "exit", ",", "init">>,
      <<>>,
      <<",">>,
      <<"init", ",">>,
      <<"init", ",", "foo">>,
      <<"foo", ",", "init">>,
      <<"init", ",", " exit">>,
      <<"Init">> }

SubscribeOptions == {NoneV} \cup {Some(a) : a \in SubscribeArgs}

\* the program runs only if the command line parsed
NextSubscribe ==
    /\ cli_subscribe(cliSubscribe).ok
    /\ \/ ChildWrite("bad", MaxOut)
       \/ ChildExits(0)
       \/ SlaveClose
       \/ DrvReadChunk
       \/ DrvSendOut
       \/ DrvReadEof
       \/ DrvWaitNohang
       \/ DrvBlockWait
       \/ ELChildExit
       \/ ELOutput
       \/ ELSnapshot
       \/ ApiSend(CmdSnapshot, 1)
       \/ StdioClient
       \/ ELClient

SpecSubscribe == InitOf({NoEvent}, InitSizes, SubscribeOptions) /\ [][NextSubscribe]_vars

\* the admission flags: every source of the loop closes at some moment, while
\* commands and clients still arrive and the child still writes
NextFlags ==
    \/ ChildWrite("bad", MaxOut)
    \/ ChildExits(0)
    \/ SlaveClose
    \/ DriverStep
    \/ LoopStep
    \/ CloseStep
    \/ ELSnapshot
    \/ ApiSend(CmdSnapshot, MaxCmds)
    \/ ClientArrive(Client(<<"exit">>, FALSE), MaxClients)
    \/ ELClient

SpecFlags == Init /\ [][NextFlags]_vars

\* the path of the output: the child writes chunks that differ from their
\* neighbours, one of them not valid UTF-8, more of them than the channel holds
ChunkAt(k) == <<"appOn", "bad", "appOff">>[((k - 1) % 3) + 1]

NextOut ==
    \/ ChildWrite(ChunkAt(nOut + 1), MaxOut + 2)
    \/ ChildExits(0)
    \/ SlaveClose
    \/ DriverStep
    \/ LoopStep
    \/ ClientArrive(Client(<<"output", "exit">>, FALSE), 1)
    \/ ELClient

SpecOut == Init /\ [][NextOut]_vars

\* repeated commands: Snapshot several times in a row, and Resize to the size
\* the session already has
RepeatCommands == { CmdSnapshot, CmdResize(3, 2) }

NextRepeat ==
    \/ ChildWrite("bad", MaxOut)
    \/ ChildExits(0)
    \/ SlaveClose
    \/ DrvReadChunk
    \/ DrvSendOut
    \/ DrvReadEof
    \/ DrvWaitNohang
    \/ DrvBlockWait
    \/ ELChildExit
    \/ ELOutput
    \/ ELSnapshot
    \/ ELResize
    \/ \E c \in RepeatCommands : ApiSend(c, MaxCmds + 1)
    \/ ClientArrive(Client(<<"resize", "snapshot">>, FALSE), 1)
    \/ ELClient

SpecRepeat == Init /\ [][NextRepeat]_vars

\* subscribers with a queue of one place, read or not read by their clients,
\* or closed: the output and the exit are delivered to them
NextSlow ==
    \/ ChildWrite("bad", MaxOut + 1)
    \/ ChildExits(0)
    \/ SlaveClose
    \/ DriverStep
    \/ LoopStep
    \/ \E cl \in SlowClients : ClientArrive(cl, 2)
    \/ ELClient
    \/ \E i \in DOMAIN subs : ClientRead(i)
    \/ \E i \in DOMAIN subs : ClientClose(i)

SpecSlow == Init /\ [][NextSlow]_vars

\* the Input command: the child's output switches the cursor-key mode, the
\* master fd takes whole buffers, no client arrives
NextInput ==
    \/ ChildStep({"appOn", "appOff"}, {0})
    \/ ChildSignaled(SIGHUP)
    \/ DriverStep
    \/ DrvRecvInput
    \/ DrvWrite(Len(input))
    \/ DrvWriteZero(0)
    \/ LoopStep
    \/ ELInput
    \/ ELSendOk
    \/ ELSendClosed
    \/ \E c \in InputCommands : ApiSend(c, MaxCmds)

SpecInput == Init /\ [][NextInput]_vars

\* termination: the child writes one chunk more than the output channel holds
\* and exits; Input commands are sent, one more than the input channel holds;
\* a client that does not ask for exit subscribes; the API task may end
NextLive ==
    \/ ChildWrite("bad", ChanCap + 1)
    \/ ChildExits(0)
    \/ SlaveClose
    \/ DriverStep
    \/ DrvRecvInput
    \/ LoopStep
    \/ ELInput
    \/ ELSendOk
    \/ ELSendClosed
    \/ ApiSend(CmdInput(<<Standard(<<"x">>)>>), ChanCap + 1)
    \/ ApiEnd(TRUE)
    \/ ELStdinClosed
    \/ ELApi
    \/ ClientArrive(Client(<<"init", "output">>, FALSE), 1)
    \/ ELClient

\* the executor runs a task that can make a step, and select! takes a branch
\* that stays ready; nothing is assumed of the child, the clients or the
\* readiness of the master fd for writing
LiveFairness ==
    /\ WF_vars(DrvReadChunk) /\ WF_vars(DrvSendOut) /\ WF_vars(DrvReadEof)
    /\ WF_vars(DrvReadWouldBlock) /\ WF_vars(DrvRecvInput)
    /\ WF_vars(DrvWaitNohang) /\ WF_vars(DrvBlockWait)
    /\ WF_vars(ELChildExit) /\ WF_vars(ELOutput) /\ WF_vars(ELOutputClosed)
    /\ WF_vars(ELInput) /\ WF_vars(ELSendOk) /\ WF_vars(ELSendClosed)
    /\ WF_vars(ELClient)

SpecLive == Init /\ [][NextLive]_vars /\ LiveFairness

\* window sizes: main starts with any --size argument the parser accepts, and
\* Resize commands are sent
ResizeCommands == { CmdResize(0, 0), CmdResize(5, 4), CmdResize(65536, 1) }

NextSize ==
    \/ ChildExits(0)
    \/ SlaveClose
    \/ DrvReadEof
    \/ DrvWaitNohang
    \/ DrvBlockWait
    \/ ELChildExit
    \/ ELOutputClosed
    \/ ELResize
    \/ \E c \in ResizeCommands : ApiSend(c, MaxCmds)
    \/ ClientArrive(Client(<<"init", "resize">>, FALSE), MaxClients)
    \/ ELClient

SpecSize == InitFrom({NoEvent}, ParsedSizes(SizeArgs)) /\ [][NextSize]_vars

\* the path of the bytes: Input and MouseClick commands are sent, the master fd
\* takes any part of the pending buffer at a time, then the child ends
RunCommands ==
    { CmdInput(<<Cursor(<<"n">>, <<"a">>), Standard(<<"x">>)>>),
      CmdMouseClick(MouseEvent("Drag", "Left", 1, 2, NoMods)) }

NextBytes ==
    \/ ChildExits(0)
    \/ SlaveClose
    \/ DrvReadEof
    \/ DrvWaitNohang
    \/ DrvBlockWait
    \/ DriverInputStep
    \/ ELChildExit
    \/ ELOutputClosed
    \/ ELInput
    \/ ELMouseClick
    \/ ELSendOk
    \/ ELSendClosed
    \/ \E c \in RunCommands : ApiSend(c, MaxCmds)

SpecBytes == Init /\ [][NextBytes]_vars

\* the mouse encoder: the client sends Mouse and MouseClick commands for one
\* event, any of MouseEvents (every type and button, inside and outside the
\* window, each modifier alone, none and all); the child writes nothing
ProbeModifiers ==
    { NoMods, Mods(TRUE, FALSE, FALSE), Mods(FALSE, TRUE, FALSE), Mods(FALSE, FALSE, TRUE),
      Mods(TRUE, TRUE, TRUE) }

MouseEvents ==
    { MouseEvent(t, b, rc[1], rc[2], m) :
        t \in MouseEventTypes, b \in MouseButtons, rc \in {<<1, 2>>, <<13, 120>>},
        m \in ProbeModifiers }

NextMouse ==
    \/ ChildExits(0)
    \/ SlaveClose
    \/ DrvReadEof
    \/ DrvWaitNohang
    \/ DrvBlockWait
    \/ DrvRecvInput
    \/ DrvWrite(Len(input))
    \/ ELChildExit
    \/ ELOutputClosed
    \/ ELMouse
    \/ ELMouseClick
    \/ ELSendOk
    \/ ELSendClosed
    \/ \E c \in {CmdMouse(probe), CmdMouseClick(probe)} : ApiSend(c, MaxCmds)

SpecMouse == InitWith(MouseEvents) /\ [][NextMouse]_vars


\* ------------------------------------------------------------- properties
\* the calls of session.exit made so far
ExitCalls == SelectSeq(sessLog, LAMBDA c : c.op = "exit")

\* run_event_loop has returned
Returned == elPc = "done"

\* C1 (as claimed): whenever run_event_loop has returned, it returned through
\* the child_exit branch: the driver future had resolved, session.exit was
\* called exactly once and it was the last call made on the session.
C1_ReturnsOnlyThroughChildExit ==
    Returned =>
        /\ ptyHandle.kind # "pending"
        /\ loopResult = "ok"
        /\ Len(ExitCalls) = 1
        /\ sessLog[Len(sessLog)].op = "exit"

\* C2 (as claimed): whenever the child exited normally with status s, every exit
\* call of the loop carries code = s and signal = None.
C2_NormalExitAlwaysReported ==
    \A i \in DOMAIN sessLog :
        (sessLog[i].op = "exit" /\ childStatus.kind = "Exited")
            => sessLog[i].data = <<childStatus.v, NoneV>>

\* C2 (amended): when the child exited normally with status s, the exit call
\* carries (s, None) if the driver future resolved with a status, and (1, None)
\* if the driver failed.
C2_NormalExitReported ==
    \A i \in DOMAIN sessLog :
        (sessLog[i].op = "exit" /\ childStatus.kind = "Exited")
            => sessLog[i].data = IF ptyHandle.kind = "status"
                                 THEN <<childStatus.v, NoneV>>
                                 ELSE <<1, NoneV>>

\* the child wrote output, exited with 143 and the loop reported (143, None)
C2_Witness ==
    /\ childStatus = Exited(143)
    /\ ptyHandle.kind = "status"
    /\ Len(sessLog) >= 2
    /\ sessLog[1].op = "output"
    /\ sessLog[Len(sessLog)] = Call("exit", <<143, NoneV>>)

\* C3: the ExitStatus the driver resolves with has a signal exactly when the
\* child was terminated by a signal, n with code 128 + n; a normal exit with
\* status s gives (s, None), also for s = 128 + n; and no exit call of the loop
\* carries a signal unless the child was terminated by that signal.
C3_CodeAndSignalIndependent ==
    /\ ptyHandle.kind = "status" =>
        /\ (ptyHandle.st.signal # NoneV) <=> (childStatus.kind = "Signaled")
        /\ childStatus.kind = "Signaled" =>
              ptyHandle.st = [code |-> 128 + childStatus.v, signal |-> <<childStatus.v>>]
        /\ childStatus.kind = "Exited" =>
              ptyHandle.st = [code |-> childStatus.v, signal |-> NoneV]
    /\ \A i \in DOMAIN sessLog :
        (sessLog[i].op = "exit" /\ sessLog[i].data[2] # NoneV)
            => /\ childStatus.kind = "Signaled"
               /\ sessLog[i].data = <<128 + childStatus.v, <<childStatus.v>>>>

\* the child was killed by signal 15 and the loop reported (143, Some(15))
C3_Witness ==
    /\ childStatus = Signaled(15)
    /\ ptyHandle.kind = "status"
    /\ Len(sessLog) >= 1
    /\ sessLog[Len(sessLog)] = Call("exit", <<143, <<15>>>>)

\* C4 (as claimed): once main has returned, the exit code of the process is the
\* child's status when the child exited normally, and is not zero when the
\* driver failed.
C4_ExitCodeMirrorsChild ==
    Returned =>
        /\ (ptyHandle.kind = "status" /\ childStatus.kind = "Exited")
              => ProcessExitCode = childStatus.v
        /\ ptyHandle.kind \in {"err", "joinerr"} => ProcessExitCode # 0

\* the event types a client asked for: the elements of its --subscribe value
Requested(names) == {names[k] : k \in DOMAIN names}

\* the positions of the events of one type in a subscriber's stream
Positions(evs, type) == {j \in DOMAIN evs : evs[j].type = type}

\* C5: session.exit is the last call the loop makes on the session (no output,
\* snapshot, resize or subscribe follows it, and no second exit), and an exit
\* event is the last event of every subscriber's stream that holds one.
C5_ExitIsLast ==
    /\ \A i \in DOMAIN sessLog : sessLog[i].op = "exit" => i = Len(sessLog)
    /\ \A s \in DOMAIN subs :
          \A j \in Positions(subs[s].evs, "exit") : j = Len(subs[s].evs)

\* a subscriber got events and then the exit event, while a command was still
\* waiting on the command channel
C5_Witness ==
    /\ Returned
    /\ cmdChan # <<>>
    /\ \E s \in DOMAIN subs :
          /\ Len(subs[s].evs) >= 3
          /\ subs[s].evs[Len(subs[s].evs)].type = "exit"

\* C6 (as claimed): every subscriber's stream, whatever the subscription, starts
\* with an init event and holds at most one.
C6_InitFirstForAll ==
    \A s \in DOMAIN subs :
        /\ subs[s].evs # <<>> => subs[s].evs[1].type = "init"
        /\ Cardinality(Positions(subs[s].evs, "init")) <= 1

\* C6 (amended): a subscriber that asked for init has exactly one init event,
\* at the head of its stream; a subscriber that did not ask for it has none.
C6_InitFirstIfRequested ==
    \A s \in DOMAIN subs :
        Positions(subs[s].evs, "init") =
            IF "init" \in Requested(subs[s].names) THEN {1} ELSE {}

\* a subscriber that asked for init and output got init, then output
C6_Witness ==
    \E s \in DOMAIN subs :
        /\ Requested(subs[s].names) = {"init", "output"}
        /\ Len(subs[s].evs) >= 2
        /\ subs[s].evs[1].type = "init"
        /\ subs[s].evs[2].type = "output"

\* C7: every event in a subscriber's stream, bootstrap or live, has a type the
\* client asked for, and the subscription the session holds for it stays the
\* set it asked for.
C7_OnlyRequestedTypes ==
    \A s \in DOMAIN subs :
        /\ SubSet(subs[s].sub) = Requested(subs[s].names)
        /\ \A j \in DOMAIN subs[s].evs : subs[s].evs[j].type \in Requested(subs[s].names)

\* a subscriber of exit alone: subscribed before an output and a resize were
\* emitted, it holds the exit event and nothing else
C7_Witness ==
    /\ \E i, j, k \in DOMAIN sessLog :
          /\ i < j /\ i < k
          /\ sessLog[i].op = "subscribe"
          /\ sessLog[j].op = "output"
          /\ sessLog[k].op = "resize"
    /\ \E s \in DOMAIN subs :
          /\ subs[s].names = <<"exit">>
          /\ Len(subs[s].evs) = 1
          /\ subs[s].evs[1].type = "exit"

\* ---- what the loop handed to input_tx.send, per command
RECURSIVE Flatten(_)
Flatten(vs) == IF vs = <<>> THEN <<>> ELSE Head(vs) \o Flatten(Tail(vs))

IsPrefix(a, b) == Len(a) <= Len(b) /\ a = SubSeq(b, 1, Len(a))

BytesOf(recs) == [k \in DOMAIN recs |-> recs[k].bytes]

\* the sends made for the command with this id, in order
Attempts(id) == SelectSeq(sendLog, LAMBDA r : r.id = id)

\* the vectors queued on the input channel so far, in order
OkVectors == BytesOf(SelectSeq(sendLog, LAMBDA r : r.ok))

\* the h-th handled command is suspended in a send
Sending(h) == elPc = "sending" /\ h = Len(handled)

\* every vector the handler of the h-th command sends: sent or still to send
Vectors(h) ==
    BytesOf(Attempts(handled[h].id)) \o (IF Sending(h) THEN elPending ELSE <<>>)

\* a send of the h-th command failed: it was its last send, and the loop
\* returned the error
FailsOnlyByReturning(h) ==
    LET att == Attempts(handled[h].id)
    IN  \A k \in DOMAIN att :
            ~att[k].ok => /\ k = Len(att)
                          /\ h = Len(handled)
                          /\ Returned /\ loopResult = "err"

\* ---- the SGR encoding, written from the protocol
Digit(d) ==
    CASE d = 0 -> "0" [] d = 1 -> "1" [] d = 2 -> "2" [] d = 3 -> "3" [] d = 4 -> "4"
      [] d = 5 -> "5" [] d = 6 -> "6" [] d = 7 -> "7" [] d = 8 -> "8" [] d = 9 -> "9"

\* decimal numeral of n < 1000
Numeral(n) ==
    IF n >= 100 THEN <<Digit(n \div 100), Digit((n \div 10) % 10), Digit(n % 10)>>
    ELSE IF n >= 10 THEN <<Digit(n \div 10), Digit(n % 10)>>
    ELSE <<Digit(n)>>

ButtonBase == [Left |-> 0, Middle |-> 1, Right |-> 2, WheelUp |-> 64, WheelDown |-> 65]

Bit(b, w) == IF b THEN w ELSE 0

\* ESC [ < btn ; col ; row (M|m) for an event of the given type with the
\* button, modifiers and coordinates of e
Sgr(type, e) ==
    <<"ESC", "[", "<">>
    \o Numeral(ButtonBase[e.button] + Bit(e.modifiers.shift, 4) + Bit(e.modifiers.alt, 8)
               + Bit(e.modifiers.control, 16) + Bit(type = "Drag", 32))
    \o <<";">> \o Numeral(e.col) \o <<";">> \o Numeral(e.row)
    \o <<IF type = "Release" THEN "m" ELSE "M">>

\* C8 (as claimed): for every MouseClick(e) whose handler has finished, exactly
\* two vectors were queued for the PTY: the SGR Press of e, then its Release.
C8_ClickAlwaysPressRelease ==
    \A h \in DOMAIN handled :
        (handled[h].cmd.type = "MouseClick" /\ ~Sending(h)) =>
            BytesOf(SelectSeq(Attempts(handled[h].id), LAMBDA r : r.ok))
                = <<Sgr("Press", handled[h].cmd.ev), Sgr("Release", handled[h].cmd.ev)>>

\* C8 (amended): for every MouseClick(e), whatever the type of e, the handler
\* sends the SGR Press of e then its Release, same button, modifiers and
\* coordinates, one after the other with no vector of another command between
\* them; both are queued unless the driver has dropped the input channel, and
\* then the failed send is the handler's last and the loop returns its error;
\* and the PTY receives the queued vectors in that order.
C8_ClickPressThenRelease ==
    /\ \A h \in DOMAIN handled :
        handled[h].cmd.type = "MouseClick" =>
            LET e == handled[h].cmd.ev
                want == <<Sgr("Press", e), Sgr("Release", e)>>
                att == Attempts(handled[h].id)
            IN  /\ IsPrefix(Vectors(h), want)
                /\ (Sending(h) \/ \A k \in DOMAIN att : att[k].ok) => Vectors(h) = want
                /\ FailsOnlyByReturning(h)
                /\ \A i, j \in DOMAIN sendLog :
                      (i < j /\ sendLog[i].id = handled[h].id /\ sendLog[j].id = handled[h].id)
                          => \A m \in i..j : sendLog[m].id = handled[h].id
    /\ IsPrefix(masterIn, Flatten(OkVectors))

\* a MouseClick carrying a Drag of the wheel outside the window, with alt held:
\* the PTY got the Press and the Release
C8_Witness ==
    /\ Len(handled) >= 1
    /\ handled[1].cmd = CmdMouseClick(MouseEvent("Drag", "WheelUp", 13, 120, Mods(FALSE, TRUE, FALSE)))
    /\ handled[1].warned
    /\ masterIn = <<"ESC", "[", "<", "7", "2", ";", "1", "2", "0", ";", "1", "3", "M",
                    "ESC", "[", "<", "7", "2", ";", "1", "2", "0", ";", "1", "3", "m">>

\* C10 (as claimed): for every Mouse(e) whose handler has finished, exactly one
\* vector was queued for the PTY: the SGR sequence of e.
C10_MouseAlwaysForwarded ==
    \A h \in DOMAIN handled :
        (handled[h].cmd.type = "Mouse" /\ ~Sending(h)) =>
            BytesOf(SelectSeq(Attempts(handled[h].id), LAMBDA r : r.ok))
                = <<Sgr(handled[h].cmd.ev.event_type, handled[h].cmd.ev)>>

\* C10 (amended): for every Mouse(e), inside the window or not, the handler
\* sends exactly one vector, ESC [ < btn ; col ; row (M|m) with the coordinates
\* of e unchanged; coordinates outside the window only print the warning; the
\* vector is queued unless the driver has dropped the input channel, and then
\* the loop returns the error of the send.
C10_MouseSerialised ==
    \A h \in DOMAIN handled :
        handled[h].cmd.type = "Mouse" =>
            LET e == handled[h].cmd.ev
            IN  /\ Vectors(h) = <<Sgr(e.event_type, e)>>
                /\ FailsOnlyByReturning(h)
                /\ handled[h].warned <=> (e.row > rows \/ e.col > cols)

\* a Release of the right button outside the window with shift, alt and
\* control held: the warning was printed and the PTY got the sequence
C10_Witness ==
    /\ Len(handled) >= 1
    /\ handled[1].cmd = CmdMouse(MouseEvent("Release", "Right", 13, 120, Mods(TRUE, TRUE, TRUE)))
    /\ handled[1].warned
    /\ masterIn = <<"ESC", "[", "<", "3", "0", ";", "1", "2", "0", ";", "1", "3", "m">>

\* ---- the Input serialisation, written from the protocol
\* the cursor-key mode after the output calls of a log: the last switch decides
RECURSIVE ModeOf(_)
ModeOf(log) ==
    IF log = <<>> THEN FALSE
    ELSE LET last == log[Len(log)]
         IN  IF last.op = "output" /\ last.data = <<"appOn">> THEN TRUE
             ELSE IF last.op = "output" /\ last.data = <<"appOff">> THEN FALSE
             ELSE ModeOf(SubSeq(log, 1, Len(log) - 1))

\* what one sequence contributes under a mode
Contribution(seq, app) ==
    IF seq.kind = "Cursor" /\ app THEN seq.seq2 ELSE seq.seq1

ExpectedInput(seqs, app) == Flatten([i \in DOMAIN seqs |-> Contribution(seqs[i], app)])

\* C9: for every Input command the handler sends one vector, the concatenation
\* in list order of b for each Standard(b) and, for each Cursor(n, a), of a if
\* the session is in cursor-key application mode and n if not; the mode is the
\* one left by every output chunk fed to the session before the dispatch, not
\* the one in force when the command was queued.
C9_InputUsesModeAtDispatch ==
    \A h \in DOMAIN handled :
        handled[h].cmd.type = "Input" =>
            LET mode == ModeOf(SubSeq(sessLog, 1, handled[h].at))
            IN  /\ Vectors(h) = <<ExpectedInput(handled[h].cmd.seqs, mode)>>
                /\ handled[h].dmode = mode

\* an Input queued in normal mode and dispatched after the output that switched
\* to application mode: the PTY got the application sequence
C9_Witness ==
    /\ Len(handled) >= 1
    /\ handled[1].cmd = CmdInput(<<Cursor(<<"n">>, <<"a">>), Standard(<<"x">>)>>)
    /\ ~handled[1].qmode
    /\ handled[1].at >= 1
    /\ masterIn = <<"a", "x">>

\* C11 (as claimed): the driver future has resolved, with a status or with an
\* error, only if a waitpid has returned the child's terminal status: the child
\* is then neither running nor an unreaped zombie.
C11_ResolvesOnlyAfterReap ==
    ptyHandle.kind # "pending" => child = "reaped"

\* the loop is suspended in a send on the full input channel while the driver is
\* suspended in a send on the full output channel
Deadlocked ==
    /\ elPc = "sending" /\ Len(inputChan) >= ChanCap
    /\ drvPc = "send" /\ Len(outChan) >= ChanCap

C13_SessionSizeIsPtyWinsize ==
    <<cols, rows>> = ptyWinsize

\* C14 (as claimed): the window size given to the PTY and the size the session
\* holds have cols and rows of at least 1 that fit u16.
C14_SizesValid ==
    /\ ptyWinsize[1] \in 1..U16Max /\ ptyWinsize[2] \in 1..U16Max
    /\ cols \in 1..U16Max /\ rows \in 1..U16Max

\* the bytes the h-th handled command queued for the PTY, in the order sent
RunOf(h) == Flatten(BytesOf(SelectSeq(Attempts(handled[h].id), LAMBDA r : r.ok)))

\* the runs of the handled commands, one after the other in dispatch order
RunsInDispatchOrder == Flatten([h \in DOMAIN handled |-> RunOf(h)])

\* C15: what the master fd has taken is at every moment a prefix of the runs
\* of the handled commands laid end to end in dispatch order, each run being
\* the command's vectors in the order sent: the sends of one command are
\* adjacent in the send order, no byte of another command stands inside a run,
\* and while the driver runs nothing queued is lost or reordered, whatever the
\* sizes of the partial writes.
C15_RunsContiguousInOrder ==
    /\ \A i, j \in DOMAIN sendLog : i < j => sendLog[i].id <= sendLog[j].id
    /\ \A g, h \in DOMAIN handled : g < h => handled[g].id < handled[h].id
    /\ IsPrefix(masterIn, RunsInDispatchOrder)
    /\ InRunLoop => masterIn \o input \o Flatten(inputChan) = RunsInDispatchOrder

\* a click then an Input: the master took the press, the release and the
\* Input's bytes, one run after the other
C15_Witness ==
    /\ Len(handled) = 2
    /\ handled[1].cmd.type = "MouseClick"
    /\ handled[2].cmd.type = "Input"
    /\ Len(OkVectors) = 3
    /\ masterIn = Sgr("Press", handled[1].cmd.ev) \o Sgr("Release", handled[1].cmd.ev)
                    \o <<"n", "x">>

\* the event broadcast by the k-th call made on the session
EventOfCall(log, k) ==
    CASE log[k].op = "output" -> <<Event("output", log[k].data)>>
      [] log[k].op = "resize" -> <<Event("resize", log[k].data)>>
      [] log[k].op = "snapshot" -> <<Event("snapshot", <<Fed(SubSeq(log, 1, k - 1))>>)>>
      [] log[k].op = "exit" -> <<Event("exit", log[k].data)>>
      [] OTHER -> <<>>

\* the events of the subscriber's types broadcast after its subscription
LiveExpected(s) ==
    SelectSeq(Flatten([k \in 1..(Len(sessLog) - s.at - 1) |-> EventOfCall(sessLog, s.at + 1 + k)]),
              LAMBDA e : e.type \in Requested(s.names))

\* the events of the bootstrap the client took
NBoot(s) ==
    (IF "init" \in Requested(s.names) THEN 1 ELSE 0)
    + (IF "snapshot" \in Requested(s.names) /\ s.snap THEN 1 ELSE 0)

\* the live events handed to the subscriber
LivePart(s) == SubSeq(s.evs, NBoot(s) + 1, Len(s.evs))

\* C16: whatever the state of the subscribers' queues, the output branch and the
\* child_exit branch of the loop are ready as soon as a chunk is queued or the
\* driver has resolved (the delivery never waits for room); a subscriber is
\* dropped only by a delivery, and only when its queue is full or closed; a
\* subscriber that was never dropped holds every event of its types broadcast
\* since it subscribed, in order, and a dropped one holds them up to the event
\* it could not take.
C16_FullQueueNeverStalls ==
    /\ [](/\ (elPc = "select" /\ output_open /\ outChan # <<>>) => ENABLED ELOutput
          /\ (elPc = "select" /\ ptyHandle.kind # "pending") => ENABLED ELChildExit
          /\ \A i \in DOMAIN subs :
                /\ IsPrefix(LivePart(subs[i]), LiveExpected(subs[i]))
                /\ subs[i].alive <=> LivePart(subs[i]) = LiveExpected(subs[i]))
    /\ [][\A i \in DOMAIN subs :
            (subs[i].alive /\ ~subs'[i].alive) =>
                /\ ~CanTake(subs[i])
                /\ Len(sessLog') = Len(sessLog) + 1]_vars

\* the first subscriber never read: it took the first chunk, was dropped at the
\* second; the second subscriber kept reading and holds both chunks and the exit
C16_Witness ==
    /\ Len(subs) = 2
    /\ ~subs[1].alive /\ subs[1].open
    /\ subs[1].evs = <<Event("output", <<"fffd">>)>>
    /\ subs[2].alive
    /\ subs[2].evs = <<Event("output", <<"fffd">>), Event("output", <<"fffd">>),
                       Event("exit", <<0, NoneV>>)>>
    /\ Returned

\* the session's size after its first t calls: the last resize among them, or
\* the size it was built with, which is the one the PTY was opened with
SizeAt(t) ==
    LET rs == SelectSeq(SubSeq(sessLog, 1, t), LAMBDA c : c.op = "resize")
    IN  IF rs = <<>> THEN ptyWinsize ELSE rs[Len(rs)].data

\* the bootstrap of a subscription made after t calls
BootstrapAt(t) ==
    <<Event("init", <<SizeAt(t)[1], SizeAt(t)[2], Pid>>),
      Event("snapshot", <<Fed(SubSeq(sessLog, 1, t))>>)>>

\* what the subscriber took of its bootstrap
BootPart(s) == SubSeq(s.evs, 1, NBoot(s))

\* C17: every subscriber's stream begins with the bootstrap of one instant t,
\* the moment of its subscribe call: init carries the size left by the calls
\* made before t and the pid, the snapshot (if wanted) the screen fed by the
\* outputs before t; what follows is, for the types subscribed to and as long
\* as the subscriber is attached, exactly the events of the calls made after
\* t, in call order: none before t, none missing, none twice.
C17_BootstrapThenLiveFromThere ==
    \A i \in DOMAIN subs :
        LET s == subs[i]
        IN  /\ s.at < Len(sessLog) /\ sessLog[s.at + 1].op = "subscribe"
            /\ Len(s.evs) >= NBoot(s)
            /\ BootPart(s) = SelectSeq(BootstrapAt(s.at), LAMBDA e :
                                /\ e.type \in Requested(s.names)
                                /\ e.type = "snapshot" => s.snap)
            /\ s.alive => LivePart(s) = LiveExpected(s)

\* a client that arrived after a chunk and a resize, then a snapshot command
\* and the exit: init with the new size, the screen with the chunk, then the
\* two live events only
C17_Witness ==
    /\ Len(subs) = 1
    /\ subs[1].at = 2
    /\ subs[1].evs = <<Event("init", <<5, 4, Pid>>), Event("snapshot", <<1>>),
                       Event("snapshot", <<1>>), Event("exit", <<0, NoneV>>)>>

\* the driver future resolved with an error, or its task failed
DriverFailed == ptyHandle.kind \in {"err", "joinerr"}

Sent == [h \in DOMAIN handled |-> handled[h].cmd] \o [k \in DOMAIN cmdChan |-> cmdChan[k].cmd]

\* the call the loop makes on the session for a Snapshot or Resize command
CallFor(cmd) ==
    IF cmd.type = "Snapshot" THEN Call("snapshot", <<>>)
    ELSE Call("resize", <<cmd.cols, cmd.rows>>)

\* the snapshot and resize calls made so far, in order
CommandCalls == SelectSeq(sessLog, LAMBDA c : c.op \in {"snapshot", "resize"})

\* C19 (as claimed): once the loop has returned, every Snapshot and Resize
\* command that was sent has had its call: the calls made are, in order, those
\* of the commands sent.
C19_EverySentCommandServed ==
    Returned => CommandCalls = [k \in DOMAIN Sent |-> CallFor(Sent[k])]

\* C19 (amended): the loop takes the commands in the order sent, skipping none,
\* and makes for each Snapshot or Resize it takes exactly one call, in the same
\* step: the calls made are, in order, those of the commands taken, a Resize to
\* the size the session already has included; a subscriber of snapshot and
\* resize attached before them holds one event per call. The commands still
\* on the channel when the loop takes child_exit get no call.
C19_EveryTakenCommandServed ==
    /\ \A h \in DOMAIN handled : handled[h].id = h
    /\ \A k \in DOMAIN cmdChan : cmdChan[k].id = Len(handled) + k
    /\ CommandCalls = [h \in DOMAIN handled |-> CallFor(handled[h].cmd)]
    /\ \A h \in DOMAIN handled : sessLog[handled[h].at + 1] = CallFor(handled[h].cmd)
    /\ Returned => sessLog[Len(sessLog)].op = "exit"
    /\ \A i \in DOMAIN subs :
          Len(SelectSeq(LivePart(subs[i]), LAMBDA e : e.type \in {"snapshot", "resize"}))
            = Len(SelectSeq(SubSeq(sessLog, subs[i].at + 2, Len(sessLog)),
                            LAMBDA c : c.op \in {"snapshot", "resize"}))

\* Snapshot, Snapshot, then Resize to the size in force, all taken before the
\* child ended: three calls, and the subscriber holds the three events
C19_Witness ==
    /\ Returned
    /\ Len(handled) = 3
    /\ CommandCalls = <<Call("snapshot", <<>>), Call("snapshot", <<>>), Call("resize", <<3, 2>>)>>
    /\ Len(subs) = 1
    /\ subs[1].evs = <<Event("snapshot", <<0>>), Event("snapshot", <<1>>), Event("resize", <<3, 2>>)>>

\* the elements of the --subscribe value given
Listed == cli_subscribe(cliSubscribe).names

\* C20: the value parses if and only if every element between its commas is one
\* of the five names, and the subscription it yields holds exactly the names
\* listed, in whatever order and however often they are written; a value with
\* any other element (an unknown word, an empty element, a name with a space or
\* a capital) gives an error and no client ever exists; without the option the
\* subscription is the empty set, and it is accepted: the client is attached
\* and receives nothing. The client that arrives and the subscriber the session
\* keeps hold that same set.
C20_SubscribeParsesToListedSet ==
    /\ cliSubscribe # NoneV =>
          /\ Listed = split(cliSubscribe[1])
          /\ from_str(Listed).ok <=> \A k \in DOMAIN Listed : Listed[k] \in EventTypes
          /\ from_str(Listed).ok => SubSet(from_str(Listed).sub) = Requested(Listed)
          /\ cli_subscribe(cliSubscribe) = [ok |-> from_str(Listed).ok, names |-> Listed,
                                            sub |-> from_str(Listed).sub]
    /\ cliSubscribe = NoneV =>
          /\ cli_subscribe(cliSubscribe).ok
          /\ SubSet(cli_subscribe(cliSubscribe).sub) = {}
    /\ ~cli_subscribe(cliSubscribe).ok => nClients = 0 /\ subs = <<>> /\ sessLog = <<>>
    /\ \A k \in DOMAIN clientsChan :
          SubSet(clientsChan[k].sub) = Requested(Listed) /\ Requested(Listed) \subseteq EventTypes
    /\ \A i \in DOMAIN subs :
          /\ SubSet(subs[i].sub) = Requested(Listed) /\ Requested(Listed) \subseteq EventTypes
          /\ \A j \in DOMAIN subs[i].evs : subs[i].evs[j].type \in Requested(Listed)
          /\ Requested(Listed) = {} => subs[i].alive /\ subs[i].evs = <<>>

\* --subscribe output,init,resize,snapshot,exit,init: the client holds the five
\* names and has received init, the output, the snapshot and the exit
C20_Witness ==
    /\ cliSubscribe = Some(<<"output", ",", "init", ",", "resize", ",", "snapshot", ",", "exit", ",", "init">>)
    /\ Len(subs) = 1
    /\ SubSet(subs[1].sub) = EventTypes
    /\ subs[1].evs = <<Event("init", <<3, 2, Pid>>), Event("output", <<"fffd">>),
                       Event("snapshot", <<1>>), Event("exit", <<0, NoneV>>)>>

\* C21: the four flags start true; in every step a flag that is false stays
\* false, a flag goes from true to false only when its own source is closed or
\* finished (the output channel empty with its sender dropped, the command
\* channel empty with its sender dropped, the clients channel empty with no
\* sender left, the API task ended), and in that step the loop stays in its
\* select; while a flag is false its branch takes nothing: no chunk is fed,
\* no command handled, no client accepted. No flag makes the loop return: the
\* loop has returned only after the driver future resolved, and the child_exit
\* branch is ready whenever that future has resolved, whatever the flags.
C21_FlagsLatch ==
    /\ flagVars = <<TRUE, TRUE, TRUE, TRUE>>
    /\ [][/\ (output_open' => output_open) /\ (stdin_open' => stdin_open)
          /\ (serving' => serving) /\ (api_running' => api_running)
          /\ (output_open /\ ~output_open') => (outChan = <<>> /\ ~InRunLoop)
          /\ (stdin_open /\ ~stdin_open') => (cmdChan = <<>> /\ apiDone)
          /\ (serving /\ ~serving') => (clientsChan = <<>> /\ ~clientsTxOpen)
          /\ (api_running /\ ~api_running') => apiDone
          /\ flagVars' # flagVars => (elPc = "select" /\ elPc' = "select")
          /\ ~output_open => Fed(sessLog') = Fed(sessLog)
          /\ ~stdin_open => handled' = handled
          /\ ~serving => Len(subs') = Len(subs)]_vars
    /\ [](Returned => ptyHandle.kind # "pending")
    /\ []((elPc = "select" /\ ptyHandle.kind # "pending") => ENABLED ELChildExit)

\* the four sources have all closed and the loop is still in its select,
\* waiting for the child, which is still running
C21_Witness ==
    /\ ~output_open /\ ~stdin_open /\ ~serving /\ ~api_running
    /\ elPc = "select"
    /\ ptyHandle.kind = "pending"
    /\ Len(handled) >= 1 /\ Len(subs) >= 1

\* the vectors the driver has received on the input channel, in arrival order:
\* those queued by the loop less those still on the channel
Received == SubSeq(OkVectors, 1, Len(OkVectors) - Len(inputChan))

\* C22: while the run loop runs, the bytes written to the master fd followed by
\* the pending buffer are exactly the vectors received, concatenated in arrival
\* order; a step that writes appends a non-empty prefix of the pending buffer
\* to the written bytes and leaves the rest as the new buffer, or (write
\* returning 0) appends a proper prefix and ends the run loop; a step that
\* receives a vector appends it to the buffer and writes nothing; the written
\* bytes never change otherwise; and with an empty buffer no write is enabled.
C22_WrittenIsPrefixOfReceived ==
    /\ [](InRunLoop => masterIn \o input = Flatten(Received))
    /\ [](IsPrefix(masterIn, Flatten(OkVectors)))
    /\ [][/\ IsPrefix(masterIn, masterIn')
          /\ masterIn' # masterIn =>
                /\ input # <<>> /\ drvPc = "run"
                /\ IsPrefix(SubSeq(masterIn', Len(masterIn) + 1, Len(masterIn')), input)
                /\ drvPc' = "run" => masterIn' \o input' = masterIn \o input
                /\ drvPc' # "run" => (runResult' = "ok" /\ Len(masterIn') < Len(masterIn \o input))
          /\ (drvPc' = "run" /\ inputChan' # inputChan /\ Len(inputChan') < Len(inputChan)) =>
                (input' = input \o Head(inputChan) /\ masterIn' = masterIn)]_vars
    /\ [](input = <<>> =>
            ~ENABLED (\E k \in 0..1 : DrvWrite(k) \/ DrvWriteZero(k)))

\* three vectors received, the master fd took the first two and a part of the
\* third: the rest of the third is the pending buffer
C22_Witness ==
    /\ InRunLoop
    /\ Len(OkVectors) = 3 /\ inputChan = <<>>
    /\ Len(masterIn) > Len(OkVectors[1] \o OkVectors[2])
    /\ input # <<>>
    /\ masterIn \o input = OkVectors[1] \o OkVectors[2] \o OkVectors[3]

\* the texts passed to session.output so far, in call order
Passed ==
    LET calls == SelectSeq(sessLog, LAMBDA c : c.op = "output")
    IN  [k \in DOMAIN calls |-> calls[k].data[1]]

\* the chunks the child has written so far, in order
Written == [k \in 1..nOut |-> ChunkAt(k)]

\* the chunks the driver has read from the master fd so far, in order
ReadSoFar == SubSeq(Written, 1, nOut - Len(masterOut))

\* the chunks read and not yet fed: the one being sent, then those on the channel
InFlight == outChan \o (IF drvPc = "send" THEN <<drvChunk>> ELSE <<>>)

Lossy(chunks) == [k \in DOMAIN chunks |-> from_utf8_lossy(chunks[k])]

\* C23 (as claimed): what was passed to session.output is a prefix of the chunks
\* read from the master fd.
C23_PassedIsPrefixOfRead == IsPrefix(Passed, ReadSoFar)

\* C23 (amended): what was passed to session.output is a prefix of the chunks
\* read from the master fd, each converted by from_utf8_lossy, one text per
\* chunk and in the order read; the chunks read and not yet passed are the one
\* the driver is sending followed by those on the output channel, none missing
\* and none twice; no chunk read is empty.
C23_PassedIsLossyPrefixOfRead ==
    /\ IsPrefix(Passed, Lossy(ReadSoFar))
    /\ Passed \o Lossy(InFlight) = Lossy(ReadSoFar)
    /\ \A k \in DOMAIN InFlight : InFlight[k] # ""
    /\ \A k \in DOMAIN Passed : Passed[k] # ""

\* three chunks written and read; the session was fed the three of them, the
\* second with the replacement character in place of its invalid bytes
C23_Witness ==
    /\ ReadSoFar = <<"appOn", "bad", "appOff">>
    /\ Passed = <<"appOn", "fffd", "appOff">>
    /\ \E i \in DOMAIN subs :
          [j \in DOMAIN subs[i].evs |-> subs[i].evs[j].type] = <<"output", "output", "output">>

\* C24 (as claimed): the hangup is sent only in the step that ends the
\* non-blocking wait with the child still alive, and that step, unless the
\* wait itself returned an error, always sends it and goes on to the blocking
\* wait; the blocking wait ends only by reaping the
\* terminated child and reporting its status; when the non-blocking wait finds
\* the child terminated it sends nothing, reaps it and reports that status; and
\* nothing is sent once the child is reaped.
C24_HangupIffStillAlive ==
    [][/\ (hupSent' /\ ~hupSent) => (drvPc = "wait" /\ child = "running")
       /\ (drvPc = "wait" /\ drvPc' # "wait" /\ child = "running" /\ ptyHandle'.kind # "err") =>
             (hupSent' /\ drvPc' = "blockwait" /\ ptyHandle' = Pending)
       /\ (drvPc = "blockwait" /\ drvPc' # "blockwait") =>
             (child = "zombie" /\ child' = "reaped" /\ ptyHandle'.kind # "pending"
              /\ runResult = "ok" => ptyHandle' = Resolved(parse_exit_status(childStatus)))
       /\ (drvPc = "wait" /\ drvPc' # "wait" /\ child = "zombie") =>
             (hupSent' = hupSent /\ child' = "reaped"
              /\ runResult = "ok" => ptyHandle' = Resolved(parse_exit_status(childStatus)))
       /\ child = "reaped" => hupSent' = hupSent]_vars

\* C25 (as claimed): in no reachable state is the event loop suspended in a
\* send on the full PTY input channel while the PTY driver is suspended in a
\* send on the full output channel.
C25_NoMutualBlock ==
    ~(/\ elPc = "sending" /\ Len(inputChan) >= ChanCap
      /\ drvPc = "send" /\ Len(outChan) >= ChanCap
      /\ child = "running")

\* C26 (as claimed): once session.exit has been called, no chunk is left on the
\* output channel: every chunk the driver sent was fed to session.output
\* before, so a subscriber of output and exit attached from the start holds one
\* output event per chunk sent, then the exit.
C26_OutputFedBeforeExit ==
    ExitCalls # <<>> =>
        /\ outChan = <<>>
        /\ Len(Passed) = Len(ReadSoFar)

\* ---------------------------------------------------------------- C27
\* the commands a client sends, in the order it sends them: one of each Command
\* variant over and over; the Mouse event lies outside the window
FrameAt(k) ==
    <<CmdResize(5, 4),
      CmdMouse(MouseEvent("Release", "Right", 13, 1, Mods(TRUE, FALSE, TRUE))),
      CmdInput(<<Cursor(<<"n">>, <<"a">>)>>),
      CmdSnapshot,
      CmdMouseClick(MouseEvent("Drag", "WheelUp", 1, 2, Mods(FALSE, TRUE, FALSE)))>>[((k - 1) % 5) + 1]

\* all five command arms, with a child that switches the cursor-key mode and exits
NextFrame ==
    \/ ChildWrite("appOn", MaxOut)
    \/ ChildExits(0)
    \/ SlaveClose
    \/ DriverStep
    \/ DrvRecvInput
    \/ DrvWrite(Len(input))
    \/ LoopStep
    \/ LoopByteStep
    \/ LoopSessionStep
    \/ ApiSend(FrameAt(nCmds + 1), MaxCmds + 3)

SpecFrame == Init /\ [][NextFrame]_vars

\* C27: the arm that takes a Snapshot or a Resize command puts nothing on the PTY
\* input channel and starts no send; the arm that takes an Input, Mouse or
\* MouseClick command, and every step up to the end of its sends, leaves the
\* session (size, cursor-key mode, subscribers, calls made) as it was; bytes go on
\* the PTY input channel only for an Input, Mouse or MouseClick command; and no
\* command arm changes serving, stdin_open, api_running or output_open.
C27_CommandsKeepTheirFrame ==
    [][/\ handled' # handled =>
            /\ flagVars' = flagVars
            /\ handled'[Len(handled')].cmd.type \in {"Snapshot", "Resize"} =>
                  (inputChan' = inputChan /\ sendLog' = sendLog /\ elPending' = <<>> /\ elPc' = "select")
            /\ handled'[Len(handled')].cmd.type \in {"Input", "Mouse", "MouseClick"} =>
                  sessVars' = sessVars
       /\ elPc = "sending" => (sessVars' = sessVars /\ flagVars' = flagVars)
       /\ Len(inputChan') > Len(inputChan) =>
            (elPc = "sending" /\ Cur.cmd.type \in {"Input", "Mouse", "MouseClick"})]_vars

\* a command of each variant was handled, the Mouse one with the warning, bytes
\* were sent and the child switched the cursor-key mode on
C27_Witness ==
    /\ \E h \in DOMAIN handled : handled[h].cmd.type = "Resize"
    /\ \E h \in DOMAIN handled : handled[h].cmd.type = "Mouse" /\ handled[h].warned
    /\ \E h \in DOMAIN handled : handled[h].cmd.type = "Input"
    /\ \E h \in DOMAIN handled : handled[h].cmd.type = "Snapshot"
    /\ \E h \in DOMAIN handled : handled[h].cmd.type = "MouseClick"
    /\ \E s \in DOMAIN sendLog : sendLog[s].ok
    /\ appMode
    /\ elPc = "select"

====
